---- MODULE Spec2Model ----
(***************************************************************************)
(* NotesToNotion: the note block formatter (notion_format.py) and the      *)
(* pipeline that appends its output to a Notion page                       *)
(* (menubar_notes_to_notion.py).                                           *)
(*                                                                         *)
(* Text is a sequence of characters; a character is a one-token string.    *)
(* Glyphs outside ASCII are written as tokens: "<b1>".."<b5>" are the five *)
(* bullet glyphs of _BULLET_TASK_PREFIXES, "<q>" is the question-mark      *)
(* emoji, "<dash>" is the em dash of the heading text.                     *)
(***************************************************************************)
EXTENDS Integers, Sequences, FiniteSets, TLC

(***************************************************************************)
(* Text helpers: str.strip, str.lower, str.startswith and the three        *)
(* regular expressions of notion_format.py.                                *)
(***************************************************************************)

\* Characters matched by \s and removed by str.strip()
WS == {" ", "\n"}

\* The character that '.' of a regular expression does not match
Newline == "\n"

\* Characters matched by \d
Digits == {"1", "2"}

\* _BULLET_TASK_PREFIXES
BulletGlyphs == {"<b1>", "<b2>", "<b3>", "<b4>", "<b5>"}

\* The character class [.\-xX\?] of _PREFIX_RE
PrefixChars == {".", "-", "x", "X", "?"}

\* str.lower() on one character
LowerChar(c) == IF c = "X" THEN "x" ELSE IF c = "A" THEN "a" ELSE c

Lower(s) == [i \in 1..Len(s) |-> LowerChar(s[i])]

\* s[n:] of Python (n >= 0)
Drop(s, n) == IF n >= Len(s) THEN <<>> ELSE SubSeq(s, n + 1, Len(s))

\* s.startswith(p)
StartsWith(s, p) == Len(s) >= Len(p) /\ SubSeq(s, 1, Len(p)) = p

\* Number of leading characters of s that belong to the class cs
RECURSIVE SpanLen(_, _)
SpanLen(s, cs) ==
    IF s # <<>> /\ Head(s) \in cs THEN 1 + SpanLen(Tail(s), cs) ELSE 0

\* Number of trailing characters of s that belong to the class cs
RECURSIVE SpanLenR(_, _)
SpanLenR(s, cs) ==
    IF s # <<>> /\ s[Len(s)] \in cs
    THEN 1 + SpanLenR(SubSeq(s, 1, Len(s) - 1), cs)
    ELSE 0

LStrip(s) == Drop(s, SpanLen(s, WS))

RStrip(s) == SubSeq(s, 1, Len(s) - SpanLenR(s, WS))

\* str.strip()
Strip(s) == RStrip(LStrip(s))

\* _PREFIX_RE.sub("", s) with _PREFIX_RE = ^\s*([.\-xX\?])\s+ :
\* leading whitespace, one prefix character, at least one whitespace.
PrefixSub(s) ==
    LET t == LStrip(s)
    IN  IF t # <<>> /\ Head(t) \in PrefixChars /\ SpanLen(Tail(t), WS) >= 1
        THEN LStrip(Tail(t))
        ELSE s

\* _NUM_RE.match(s) with _NUM_RE = ^\s*(\d+)\.\s+(.*) : does it match
NumMatch(s) ==
    LET t == LStrip(s)
        d == SpanLen(t, Digits)
        r == Drop(t, d)
    IN  d >= 1 /\ r # <<>> /\ Head(r) = "." /\ SpanLen(Tail(r), WS) >= 1

\* The longest prefix of s that '.*' matches: s up to its first newline
RECURSIVE UpToNewline(_)
UpToNewline(s) ==
    IF s = <<>> \/ Head(s) = Newline THEN <<>>
    ELSE <<Head(s)>> \o UpToNewline(Tail(s))

\* m.group(2) of a _NUM_RE match: what follows the whitespace behind the
\* dot, up to the end of that line
NumGroup2(s) ==
    LET t == LStrip(s)
        r == Drop(t, SpanLen(t, Digits))
    IN  UpToNewline(LStrip(Tail(r)))

strip_known_prefix(s) == Strip(PrefixSub(Strip(s)))

\* _HASH_TITLE_RE = ^\s*#\s*(.+)\s*$ ; the result <<>> stands for None
\* (an empty title is returned as None).  (.+) does not cross a newline, so
\* a title that spans two lines does not match.
_is_hash_header_line(line) ==
    LET t == LStrip(line)
    IN  IF t # <<>> /\ Head(t) = "#" /\ Tail(t) # <<>>
           /\ UpToNewline(Strip(Tail(t))) = Strip(Tail(t))
        THEN Strip(Tail(t))
        ELSE <<>>

\* The text of a question once a leading "<digits>. " is removed
StripQuestionNumber(q) ==
    IF NumMatch(q) THEN Strip(NumGroup2(q)) ELSE q

_split_prefix_kind(raw_line) ==
    LET s == Strip(raw_line)
        h == _is_hash_header_line(strip_known_prefix(s))
    IN  IF s = <<>> THEN [kind |-> "note", text |-> <<>>]
        ELSE IF h # <<>> THEN [kind |-> "hash", text |-> h]
        ELSE IF StartsWith(s, <<".", " ">>)
            THEN [kind |-> "task_open", text |-> Strip(Drop(s, 2))]
        ELSE IF StartsWith(s, <<".">>)
            THEN [kind |-> "task_open", text |-> Strip(Drop(s, 1))]
        ELSE IF StartsWith(Lower(s), <<"x", " ">>)
            THEN [kind |-> "task_done", text |-> Strip(Drop(s, 2))]
        ELSE IF StartsWith(Lower(s), <<"x">>)
            THEN [kind |-> "task_done", text |-> Strip(Drop(s, 1))]
        ELSE IF StartsWith(s, <<"?", " ">>)
            THEN [kind |-> "question",
                  text |-> StripQuestionNumber(Strip(Drop(s, 2)))]
        ELSE IF StartsWith(s, <<"?">>)
            THEN [kind |-> "question",
                  text |-> StripQuestionNumber(Strip(Drop(s, 1)))]
        ELSE IF StartsWith(s, <<"-", " ">>)
            THEN [kind |-> "note", text |-> Strip(Drop(s, 2))]
        ELSE IF StartsWith(s, <<"-">>)
            THEN [kind |-> "note", text |-> Strip(Drop(s, 1))]
        ELSE IF Head(s) \in BulletGlyphs
            THEN [kind |-> "task_open", text |-> Strip(Drop(s, 1))]
        ELSE [kind |-> "note", text |-> s]

(***************************************************************************)
(* Python values of the parsed transcription.                              *)
(*   text value : [ty: "none" | "str" | "int", s: characters]              *)
(*                ("none" is an absent or null field; the s of an int is   *)
(*                its decimal form)                                        *)
(*   list value : [ty: "none" | "list", items: sequence]                   *)
(*   task       : [ty: "dict" | "none", text: text value,                  *)
(*                 done: "absent" | "none" | "true" | "false" | "str"]     *)
(*   topic      : [ty: "dict" | "none", title, tasks, questions, notes]    *)
(***************************************************************************)

NoneVal == [ty |-> "none", s |-> <<>>]

StrVal(s) == [ty |-> "str", s |-> s]

IntVal(s) == [ty |-> "int", s |-> s]

NoneList == [ty |-> "none", items |-> <<>>]

ListVal(xs) == [ty |-> "list", items |-> xs]

\* Python truthiness of a text value: None, "" and 0 are falsy
Truthy(v) ==
    \/ v.ty = "str" /\ v.s # <<>>
    \/ v.ty = "int" /\ v.s # <<"0">>

\* str(v)
PyStr(v) == IF v.ty = "none" THEN <<"N", "o", "n", "e">> ELSE v.s

\* (v or "") with the strip() forgotten
StripOrEmptyNoStrip(v) ==
    IF ~Truthy(v) THEN [ok |-> TRUE, s |-> <<>>]
    ELSE [ok |-> v.ty = "str", s |-> v.s]

\* (v or "").strip() : the text, or "raise" when the value has no strip()
StripOrEmpty(v) ==
    IF ~Truthy(v) THEN [ok |-> TRUE, s |-> <<>>]
    ELSE IF v.ty = "str" THEN [ok |-> TRUE, s |-> Strip(v.s)]
    ELSE [ok |-> FALSE, s |-> <<>>]

\* A checked state that ignores the task's done flag
DoneFlagNever(d) == FALSE

\* bool(task.get("done", False))
DoneFlag(d) == d \in {"true", "str"}

\* xs or [] for a list field
ItemsOf(l) == IF l.ty = "list" THEN l.items ELSE <<>>

General == <<"G", "e", "n", "e", "r", "a", "l">>

HandwrittenNotes ==
    <<"H", "a", "n", "d", "w", "r", "i", "t", "t", "e", "n", " ",
      "n", "o", "t", "e", "s">>

\* parsed.get("topics") or [{"title": "General", tasks: [], ...}]
DefaultTopic ==
    [ty |-> "dict", title |-> StrVal(General), tasks |-> ListVal(<<>>),
     questions |-> ListVal(<<>>), notes |-> ListVal(<<>>)]

TopicsOf(p) ==
    IF ItemsOf(p.topics) = <<>> THEN <<DefaultTopic>> ELSE ItemsOf(p.topics)

\* The elements of xs at which keep is TRUE
RECURSIVE SelectSeq2(_, _)
SelectSeq2(xs, keep) ==
    IF xs = <<>> THEN <<>>
    ELSE (IF keep[1] THEN <<Head(xs)>> ELSE <<>>)
         \o SelectSeq2(Tail(xs), Tail(keep))

RECURSIVE Flatten(_)
Flatten(ss) == IF ss = <<>> THEN <<>> ELSE Head(ss) \o Flatten(Tail(ss))

\* The iterations of the routing loops of one topic, in the order the code
\* runs them: the topic itself (its title), its tasks, questions, notes.
TopicSteps(t) ==
    <<[k |-> "topic", topic |-> t]>>
    \o (IF t.ty # "dict" THEN <<>> ELSE
          [i \in 1..Len(ItemsOf(t.tasks)) |->
              [k |-> "task", task |-> ItemsOf(t.tasks)[i]]]
          \o [i \in 1..Len(ItemsOf(t.questions)) |->
              [k |-> "question", q |-> ItemsOf(t.questions)[i]]]
          \o [i \in 1..Len(ItemsOf(t.notes)) |->
              [k |-> "note", note |-> ItemsOf(t.notes)[i]]])

Steps(p) == Flatten([i \in 1..Len(TopicsOf(p)) |-> TopicSteps(TopicsOf(p)[i])])

(***************************************************************************)
(* State.  The formatter: its four arguments, the locals of one call of    *)
(* build_notion_blocks and the returned blocks; the local time zone of the *)
(* process, and what an earlier call with the same arguments returned.     *)
(***************************************************************************)
VARIABLES
    tz,                \* the UTC offset of the process's local time zone
    earlier,           \* [called, blocks, tz] of the earlier call
    other,             \* the locals of the call that is not running now
    running,           \* which of the two calls is running: 1 or 2
    parsed,            \* argument: the parsed transcription
    filename,          \* argument: characters of the source file name
    image_upload_id,   \* argument: the attachment handle, "" for None
    now,               \* argument: the timestamp
    fpc,               \* where the call is: "route", "finalize", "render",
                       \* "done" (returned) or "raised" (an exception left it)
    pos,               \* number of loop iterations of Steps(parsed) done
    topic_title,       \* local topic_title of the topic being routed
    sections,          \* local sections
    current_section,   \* local current_section: index in sections, 0 for None
    pending_topics,    \* local pending_topics
    blocks             \* the returned list

fvars == <<parsed, filename, image_upload_id, now, fpc, pos, topic_title,
           sections, current_section, pending_topics, blocks, tz, earlier,
           other, running>>

fenv == <<tz, earlier, other, running>>

\* Failure notifications (notify_failed_image)
VARIABLES
    failed_paths,     \* _failed_notification_paths
    nf_lock,          \* threads inside "with _failed_notification_lock"
    nf,               \* per thread: the notify_failed_image call it runs
    notified          \* per path: failure notifications handed to notify()

nvars == <<failed_paths, nf_lock, nf, notified>>

\* The usage file (usage_tracker.append_event)
VARIABLES
    usage_file,       \* the events in the usage file
    usage_tmp,        \* the events in the ".tmp" file next to it
    write_lock,       \* threads inside "with _WRITE_LOCK"
    ua,               \* per thread: the append_event call it runs
    appended          \* the events of the completed calls, in order

uvars == <<usage_file, usage_tmp, write_lock, ua, appended>>

\* Listing the children of a page (NotionClient.list_children_ids and
\* find_first_h1_id)
VARIABLES
    listing,          \* the pages the server answers with, by cursor
    lc                \* the listing call: [op, pc, cursor, ids, result,
                      \* served], served being the pages requested so far

gvars == <<listing, lc>>

\* The application's state (described with its actions below)
VARIABLES
    fpOf,             \* the fingerprint (content hash) of each file
    folder,           \* files in the watch folder root, oldest first
    processedDir,     \* files in _processed
    failedDir,        \* files in _failed
    diskState,        \* processed.json: [processed, last_note_url]
    observer,         \* NotesMenuApp.observer: 0 for None, else the generation
    gen,              \* number of Pipelines built so far
    pstate,           \* Pipeline.state of each generation's Pipeline
    evq,              \* created-events queued at each generation's observer
    batch,            \* what is left of the startup batch's pending list
    mainpc,           \* "idle", or "batch" inside start_watching
    th,               \* per thread: the process() call it is running
    ncalls,           \* number of calls that built blocks so far
    page              \* the children of the Notion page, top to bottom

pvars == <<fpOf, folder, processedDir, failedDir, diskState, observer, gen,
           pstate, evq, batch, mainpc, th, ncalls, page>>

NewBucket(title) ==
    [title |-> title, tasks |-> <<>>, notes |-> <<>>, questions |-> <<>>]

\* Index of the first bucket with this exact title, 0 when there is none
BucketIndex(topics, title) ==
    IF \E i \in 1..Len(topics) : topics[i].title = title
    THEN CHOOSE i \in 1..Len(topics) :
            /\ topics[i].title = title
            /\ \A j \in 1..(i - 1) : topics[j].title # title
    ELSE 0

\* A new bucket whether or not one of this title exists
AlwaysNewBucket(topics, title) == Append(topics, NewBucket(title))

\* The bucket list after _get_topic_bucket / _pending_bucket made sure the
\* bucket of this title exists (a new bucket goes last).
_get_topic_bucket(topics, title) ==
    IF BucketIndex(topics, title) = 0
    THEN Append(topics, NewBucket(title))
    ELSE topics

\* The value put in front of the others of the bucket
PutFirstInBucket(topics, title, field, value) ==
    LET ts == _get_topic_bucket(topics, title)
    IN  [ts EXCEPT ![BucketIndex(ts, title)][field] = <<value>> \o @]

\* The value appended twice
PutTwiceInBucket(topics, title, field, value) ==
    LET ts == _get_topic_bucket(topics, title)
    IN  [ts EXCEPT ![BucketIndex(ts, title)][field] =
                       Append(Append(@, value), value)]

\* bucket[field].append(value) on the bucket of this title
PutInBucket(topics, title, field, value) ==
    LET ts == _get_topic_bucket(topics, title)
    IN  [ts EXCEPT ![BucketIndex(ts, title)][field] = Append(@, value)]

\* The section opened before the current one, if there is one
PreviousSection ==
    IF current_section > 1 THEN current_section - 1 ELSE current_section

\* The section an item is routed to: the one opened last
TargetSection == current_section

\* The routing target: the pending list while current_section is None,
\* else the current section.  Leaves the other one alone.
Place(field, value) ==
    IF current_section = 0
    THEN /\ pending_topics' =
                PutInBucket(pending_topics, topic_title, field, value)
         /\ UNCHANGED sections
    ELSE /\ sections' =
                [sections EXCEPT ![TargetSection].topics =
                    PutInBucket(@, topic_title, field, value)]
         /\ UNCHANGED pending_topics

CurStep == Steps(parsed)[pos + 1]

Advance ==
    /\ pos' = pos + 1
    /\ fpc' = IF pos + 1 = Len(Steps(parsed)) THEN "finalize" ELSE "route"

Raise ==
    /\ fpc' = "raised"
    /\ UNCHANGED <<pos, topic_title, sections, current_section,
                   pending_topics>>

finputs == <<parsed, filename, image_upload_id, now>>

NoEarlierCall == [called |-> FALSE, blocks |-> <<>>, tz |-> ""]

\* No second call of build_notion_blocks is in progress
NoOtherCall ==
    [fpc |-> "idle", pos |-> 0, topic_title |-> <<>>, sections |-> <<>>,
     current_section |-> 0, pending_topics |-> <<>>, blocks |-> <<>>]

TimeZones == {"+00:00", "+01:00"}

\* for t in topics: topic_title = (t.get("title") or "General").strip() or "General"
BeginTopic ==
    /\ fpc = "route"
    /\ CurStep.k = "topic"
    /\ LET t == CurStep.topic
           r == IF t.ty = "dict" THEN StripOrEmpty(t.title)
                ELSE [ok |-> FALSE, s |-> <<>>]
       IN  IF r.ok
           THEN /\ topic_title' = (IF r.s = <<>> THEN General ELSE r.s)
                /\ Advance
                /\ UNCHANGED <<sections, current_section, pending_topics>>
           ELSE Raise
    /\ UNCHANGED fenv
    /\ UNCHANGED <<finputs, blocks>>
    /\ UNCHANGED pvars
    /\ UNCHANGED nvars
    /\ UNCHANGED uvars
    /\ UNCHANGED gvars

\* for task in (t.get("tasks") or [])
RouteTask ==
    /\ fpc = "route"
    /\ CurStep.k = "task"
    /\ LET task == CurStep.task
           r == IF task.ty = "dict" THEN StripOrEmpty(task.text)
                ELSE [ok |-> FALSE, s |-> <<>>]
       IN  IF ~r.ok THEN Raise
           ELSE /\ IF r.s = <<>>
                   THEN UNCHANGED <<sections, pending_topics>>
                   ELSE Place("tasks", task)
                /\ Advance
                /\ UNCHANGED <<topic_title, current_section>>
    /\ UNCHANGED fenv
    /\ UNCHANGED <<finputs, blocks>>
    /\ UNCHANGED pvars
    /\ UNCHANGED nvars
    /\ UNCHANGED uvars
    /\ UNCHANGED gvars

\* for q in (t.get("questions") or [])
RouteQuestion ==
    /\ fpc = "route"
    /\ CurStep.k = "question"
    /\ LET q_clean == strip_known_prefix(PyStr(CurStep.q))
       IN  IF q_clean = <<>>
           THEN UNCHANGED <<sections, pending_topics>>
           ELSE Place("questions", q_clean)
    /\ Advance
    /\ UNCHANGED fenv
    /\ UNCHANGED <<finputs, topic_title, current_section, blocks>>
    /\ UNCHANGED pvars
    /\ UNCHANGED nvars
    /\ UNCHANGED uvars
    /\ UNCHANGED gvars

NoteTask(text, done) ==
    [ty |-> "dict", text |-> StrVal(text),
     done |-> IF done THEN "true" ELSE "false"]

\* for raw_note in (t.get("notes") or [])
RouteNote ==
    /\ fpc = "route"
    /\ CurStep.k = "note"
    /\ LET c == _split_prefix_kind(PyStr(CurStep.note))
       IN  IF c.kind = "hash"
           THEN \* _ensure_section(text), and _flush_pending_into(sec) when
                \* this is the first section
                /\ sections' = Append(sections,
                       [title |-> c.text,
                        topics |-> IF current_section = 0
                                   THEN pending_topics ELSE <<>>])
                /\ current_section' = Len(sections) + 1
                /\ pending_topics' =
                       (IF current_section = 0 THEN <<>> ELSE pending_topics)
           ELSE /\ IF c.text = <<>>
                   THEN UNCHANGED <<sections, pending_topics>>
                   ELSE CASE c.kind = "task_open" ->
                                Place("tasks", NoteTask(c.text, FALSE))
                          [] c.kind = "task_done" ->
                                Place("tasks", NoteTask(c.text, TRUE))
                          [] c.kind = "question" ->
                                Place("questions", c.text)
                          [] OTHER -> Place("notes", c.text)
                /\ UNCHANGED current_section
    /\ Advance
    /\ UNCHANGED fenv
    /\ UNCHANGED <<finputs, topic_title, blocks>>
    /\ UNCHANGED pvars
    /\ UNCHANGED nvars
    /\ UNCHANGED uvars
    /\ UNCHANGED gvars

\* A filter that keeps every section
KeepEverySection(section) == TRUE

_section_has_content(section) ==
    \E i \in 1..Len(section.topics) :
        \/ section.topics[i].tasks # <<>>
        \/ section.topics[i].notes # <<>>
        \/ section.topics[i].questions # <<>>

\* [s for s in sections if _section_has_content(s)]
RECURSIVE DropEmptySections(_)
DropEmptySections(secs) ==
    IF secs = <<>> THEN <<>>
    ELSE (IF _section_has_content(Head(secs)) THEN <<Head(secs)>> ELSE <<>>)
         \o DropEmptySections(Tail(secs))

\* A default section that leaves the pending buckets behind
DefaultSectionNoFlush(pending) == [title |-> HandwrittenNotes, topics |-> <<>>]

\* The default section of an input without markers, the pending buckets
\* flushed into it
DefaultSection(pending) == [title |-> HandwrittenNotes, topics |-> pending]

FallbackSection == [title |-> HandwrittenNotes, topics |-> <<>>]

\* The kept sections as they are, be there none
NoFallback(kept) == kept

\* if not sections: sections = [{"title": "Handwritten notes", "topics": []}]
OrFallback(kept) == IF kept = <<>> THEN <<FallbackSection>> ELSE kept

\* After the routing loops: the default section when no "#..." line was
\* seen, then the empty sections dropped, then the fallback section.
Finalize ==
    /\ fpc = "finalize"
    /\ LET withDefault ==
               IF sections = <<>>
               THEN <<DefaultSection(pending_topics)>>
               ELSE sections
           kept == DropEmptySections(withDefault)
       IN  /\ sections' = OrFallback(kept)
           /\ pending_topics' =
                  (IF sections = <<>> THEN <<>> ELSE pending_topics)
    /\ fpc' = "render"
    /\ UNCHANGED fenv
    /\ UNCHANGED <<finputs, pos, topic_title, current_section, blocks>>
    /\ UNCHANGED pvars
    /\ UNCHANGED nvars
    /\ UNCHANGED uvars
    /\ UNCHANGED gvars

(***************************************************************************)
(* Rendered blocks: [type, text, checked, upload, date].  text is the      *)
(* content of the block's text span (the caption of an image), date the    *)
(* date mention of a heading_2, upload the file_upload id of an image.     *)
(***************************************************************************)
Block(type, text) ==
    [type |-> type, text |-> text, checked |-> FALSE, upload |-> "",
     date |-> <<>>]

\* date_mention_rich_text(dt) for a naive dt: dt.astimezone() reads dt as
\* local time, and isoformat(timespec="minutes") writes its wall clock
\* followed by the UTC offset of the local zone
date_mention_rich_text(dt, zone) == <<dt, zone>>

HeadingDash == <<" ", "<dash>", " ">>

QuestionGlyph == <<"<q>", " ">>

SourceLabel == <<"S", "o", "u", "r", "c", "e", ":", " ">>

SourceImageLabel ==
    <<"S", "o", "u", "r", "c", "e", " ", "i", "m", "a", "g", "e", ":", " ">>

\* The image block, or the "Source: <filename>" paragraph
SourceBlock ==
    IF image_upload_id # ""
    THEN [Block("image", SourceImageLabel \o filename)
             EXCEPT !.upload = image_upload_id]
    ELSE Block("paragraph", SourceLabel \o filename)

RenderTask(task) ==
    LET text == StripOrEmpty(task.text).s
    IN  IF text = <<>> THEN <<>>
        ELSE <<[Block("to_do", text) EXCEPT !.checked = DoneFlag(task.done)]>>

\* Notes rendered as bullets only, a numbered line as nothing
RenderNoteBulletsOnly(n) ==
    LET note == Strip(n)
    IN  IF note = <<>> \/ NumMatch(note) THEN <<>>
        ELSE <<Block("bulleted_list_item", note)>>

RenderNote(n) ==
    LET note == Strip(n)
    IN  IF note = <<>> THEN <<>>
        ELSE IF NumMatch(note)
             THEN (IF Strip(NumGroup2(note)) = <<>> THEN <<>>
                   ELSE <<Block("numbered_list_item", Strip(NumGroup2(note)))>>)
             ELSE <<Block("bulleted_list_item", note)>>

\* A question rendered like a note
RenderQuestionAsNote(qq) == RenderNote(qq)

RenderQuestion(qq) ==
    LET q == Strip(qq)
    IN  IF q = <<>> THEN <<>>
        ELSE <<Block("bulleted_list_item", QuestionGlyph \o q)>>

\* A topic bucket followed by an empty spacer paragraph
RenderBucketWithSpacer(t) ==
    <<Block("heading_3", t.title)>>
    \o Flatten([i \in 1..Len(t.tasks) |-> RenderTask(t.tasks[i])])
    \o Flatten([i \in 1..Len(t.notes) |-> RenderNote(t.notes[i])])
    \o Flatten([i \in 1..Len(t.questions) |-> RenderQuestion(t.questions[i])])
    \o <<Block("paragraph", <<>>)>>

\* One topic bucket: heading_3, tasks, notes, questions
RenderBucket(t) ==
    <<Block("heading_3", t.title)>>
    \o Flatten([i \in 1..Len(t.tasks) |-> RenderTask(t.tasks[i])])
    \o Flatten([i \in 1..Len(t.notes) |-> RenderNote(t.notes[i])])
    \o Flatten([i \in 1..Len(t.questions) |-> RenderQuestion(t.questions[i])])

\* A source block on every section
SourceOnEverySection(idx) == TRUE

\* The source block goes on the first section only
HasSourceBlock(idx) == idx = 1

RenderSection(idx, section) ==
    <<[Block("heading_2", HeadingDash \o section.title) EXCEPT !.date =
                                         date_mention_rich_text(now, tz)]>>
    \o (IF HasSourceBlock(idx) THEN <<SourceBlock>> ELSE <<>>)
    \o <<Block("divider", <<>>)>>
    \o Flatten([i \in 1..Len(section.topics) |->
                    RenderBucket(section.topics[i])])

RenderAll(secs) ==
    Flatten([i \in 1..Len(secs) |-> RenderSection(i, secs[i])])

\* for idx, section in enumerate(sections): ... ; return blocks
Render ==
    /\ fpc = "render"
    /\ blocks' = RenderAll(sections)
    /\ fpc' = "done"
    /\ UNCHANGED fenv
    /\ UNCHANGED <<finputs, pos, topic_title, sections, current_section,
                   pending_topics>>
    /\ UNCHANGED pvars
    /\ UNCHANGED nvars
    /\ UNCHANGED uvars
    /\ UNCHANGED gvars

\* The locals of a call that keep what the earlier call left in them
StaleLocals ==
    /\ pos' = 0
    /\ topic_title' = <<>>
    /\ current_section' = 0
    /\ blocks' = <<>>
    /\ UNCHANGED <<sections, pending_topics>>

\* blocks, sections, current_section and pending_topics are locals of the
\* call: every call starts with empty ones
FreshLocals ==
    /\ pos' = 0
    /\ topic_title' = <<>>
    /\ sections' = <<>>
    /\ current_section' = 0
    /\ pending_topics' = <<>>
    /\ blocks' = <<>>

\* build_notion_blocks is called once more with the same four arguments,
\* in a process whose local time zone may be another one
CallAgain ==
    /\ fpc = "done"
    /\ ~earlier.called
    /\ earlier' = [called |-> TRUE, blocks |-> blocks, tz |-> tz]
    /\ tz' \in TimeZones
    /\ fpc' = "route"
    /\ FreshLocals
    /\ UNCHANGED <<other, running>>
    /\ UNCHANGED finputs
    /\ UNCHANGED pvars
    /\ UNCHANGED nvars
    /\ UNCHANGED uvars
    /\ UNCHANGED gvars

\* The locals of the call that is running
Locals ==
    [fpc |-> fpc, pos |-> pos, topic_title |-> topic_title,
     sections |-> sections, current_section |-> current_section,
     pending_topics |-> pending_topics, blocks |-> blocks]

\* A call whose locals are not its own: pending_topics is one list for all
\* calls
ResumeSharingPending(l) ==
    /\ fpc' = l.fpc
    /\ pos' = l.pos
    /\ topic_title' = l.topic_title
    /\ sections' = l.sections
    /\ current_section' = l.current_section
    /\ pending_topics' = pending_topics
    /\ blocks' = l.blocks

\* The interpreter goes on with the call whose locals are l: every local
\* of build_notion_blocks (sections, current_section, pending_topics, the
\* loop variables, blocks) is created by the call and belongs to it
Resume(l) ==
    /\ fpc' = l.fpc
    /\ pos' = l.pos
    /\ topic_title' = l.topic_title
    /\ sections' = l.sections
    /\ current_section' = l.current_section
    /\ pending_topics' = l.pending_topics
    /\ blocks' = l.blocks

\* A second thread calls build_notion_blocks with the same arguments
\* (the same parsed object) while the first call is anywhere
CallConcurrently ==
    /\ other.fpc = "idle"
    /\ fpc # "idle"
    /\ other' = [NoOtherCall EXCEPT !.fpc = "route"]
    /\ UNCHANGED <<fpc, pos, topic_title, sections, current_section,
                   pending_topics, blocks, running, tz, earlier>>
    /\ UNCHANGED finputs
    /\ UNCHANGED pvars
    /\ UNCHANGED nvars
    /\ UNCHANGED uvars
    /\ UNCHANGED gvars

\* The interpreter switches threads between two steps: the running call is
\* suspended and the other call goes on
SwitchThread ==
    /\ other.fpc # "idle"
    /\ other' = Locals
    /\ Resume(other)
    /\ running' = 3 - running
    /\ UNCHANGED <<tz, earlier>>
    /\ UNCHANGED finputs
    /\ UNCHANGED pvars
    /\ UNCHANGED nvars
    /\ UNCHANGED uvars
    /\ UNCHANGED gvars

FmtNext ==
    \/ BeginTopic
    \/ RouteTask
    \/ RouteQuestion
    \/ RouteNote
    \/ Finalize
    \/ Render

(***************************************************************************)
(* Inputs.  A call's parsed argument is drawn from two families:           *)
(*   - one topic holding one note line, one question or one task, the line *)
(*     drawn from every string up to MaxLineLen over LineAlphabet and from *)
(*     every known prefix followed by a string up to MaxRestLen;           *)
(*   - every transcription written as at most MaxItems entries over        *)
(*     EntryVocab (topics, tasks, questions, marker and plain notes).      *)
(***************************************************************************)
MaxLineLen == 3

MaxRestLen == 1

MaxItems == 4

MaxBadItems == 2

LineAlphabet == {" ", "\n", "#", ".", "-", "x", "X", "?", "1", "a", "<b1>"}

LinePrefixes ==
    {<<".", " ">>, <<"x", " ">>, <<"X", " ">>, <<"-", " ">>, <<"?", " ">>,
     <<"<b1>">>, <<"<b2>">>, <<"<b3>">>, <<"<b4>">>, <<"<b5>">>,
     <<"<b2>", " ">>,
     <<"1", ".", " ">>, <<"2", "1", ".", " ">>,
     <<"?", " ", "2", ".", " ">>, <<"?", "2", ".", " ">>,
     <<"?", " ", "2", " ">>,
     <<"#", " ">>, <<"#", "#">>,
     <<"-", " ", "#">>, <<"-", "#">>, <<".", " ", "#">>, <<".", "#">>,
     <<"x", " ", "#">>, <<"X", "#">>, <<"?", " ", "#">>, <<"?", "#">>}

TopicOf(title, tasks, questions, notes) ==
    [ty |-> "dict", title |-> title, tasks |-> tasks,
     questions |-> questions, notes |-> notes]

NullTopic ==
    [ty |-> "none", title |-> NoneVal, tasks |-> NoneList,
     questions |-> NoneList, notes |-> NoneList]

TaskOf(text, done) == [ty |-> "dict", text |-> text, done |-> done]

NullTask == [ty |-> "none", text |-> NoneVal, done |-> "absent"]

ParsedOf(topics) == [topics |-> topics]

TitleT == StrVal(<<"T">>)

OneNote(l) ==
    ParsedOf(ListVal(<<TopicOf(TitleT, ListVal(<<>>), ListVal(<<>>),
                               ListVal(<<StrVal(l)>>))>>))

OneQuestion(l) ==
    ParsedOf(ListVal(<<TopicOf(TitleT, ListVal(<<>>), ListVal(<<StrVal(l)>>),
                               ListVal(<<>>))>>))

OneTask(task) ==
    ParsedOf(ListVal(<<TopicOf(TitleT, ListVal(<<task>>), NoneList,
                               NoneList)>>))

TaskTexts ==
    {NoneVal, StrVal(<<>>), StrVal(<<" ">>), StrVal(<<"t">>),
     StrVal(<<" ", "t", " ">>), StrVal(<<"#", "a">>),
     StrVal(<<".", " ", "t">>), StrVal(<<"x", " ", "t">>),
     StrVal(<<"-", " ", "t">>), StrVal(<<"<b1>", "t">>),
     StrVal(<<"?", " ", "t">>), StrVal(<<"1", ".", " ", "t">>)}

\* An entry of a transcription written item by item
Entry(k, ty, v, done) == [k |-> k, ty |-> ty, v |-> v, done |-> done]

ETopic(title) == Entry("topic", "dict", title, "absent")

ETask(text, done) == Entry("task", "dict", text, done)

EQuestion(v) == Entry("question", "dict", v, "absent")

ENote(v) == Entry("note", "dict", v, "absent")

\* Topic titles that differ in letter case and in whitespace, and blank ones
TopicTitles ==
    {<<"a">>, <<"A">>, <<"a", " ">>, <<" ", "a">>, <<"a", " ", "b">>,
     <<"a", " ", " ", "b">>, <<"a", "b">>, <<>>, <<" ">>, General}

\* Two topics with these titles, a note in each
TwoTopics(t1, t2) ==
    ParsedOf(ListVal(
        <<TopicOf(StrVal(t1), ListVal(<<>>), ListVal(<<>>),
                  ListVal(<<StrVal(<<"n">>)>>)),
          TopicOf(StrVal(t2), ListVal(<<>>), ListVal(<<>>),
                  ListVal(<<StrVal(<<"n">>)>>))>>))

EntryVocab ==
    {ETopic(StrVal(<<"a">>)), ETopic(NoneVal),
     ETask(StrVal(<<"t">>), "true"),
     EQuestion(StrVal(<<"q">>)),
     ENote(StrVal(<<"#", "a">>)), ENote(StrVal(<<"#", "b">>)),
     ENote(StrVal(<<"n">>)), ENote(StrVal(<<".", " ", "t">>)),
     ENote(StrVal(<<" ">>))}

\* Wrongly typed values, with a few well-typed ones around them
MalformedVocab ==
    {ETopic(IntVal(<<"5">>)), ETopic(IntVal(<<"0">>)),
     Entry("topic", "none", NoneVal, "absent"),
     Entry("task", "none", NoneVal, "absent"),
     ETask(IntVal(<<"5">>), "false"), ETask(IntVal(<<"0">>), "false"),
     ETask(StrVal(<<"t">>), "str"), ETask(NoneVal, "none"),
     ENote(NoneVal), ENote(IntVal(<<"5">>)),
     EQuestion(NoneVal), EQuestion(IntVal(<<"5">>)),
     ETopic(StrVal(<<"a">>)), ETask(StrVal(<<"t">>), "true"),
     ENote(StrVal(<<"n">>)), ENote(StrVal(<<"#", "a">>))}

AddToList(l, x) == ListVal(Append(ItemsOf(l), x))

\* The topics list after one more entry: a topic entry opens a topic, any
\* other entry joins the lists of the last topic (an untitled topic with
\* absent lists is opened when there is none to join).
AddEntry(topics, e) ==
    IF e.k = "topic"
    THEN Append(topics,
            IF e.ty = "dict"
            THEN TopicOf(e.v, ListVal(<<>>), ListVal(<<>>), ListVal(<<>>))
            ELSE NullTopic)
    ELSE LET ts == IF topics = <<>> \/ topics[Len(topics)].ty # "dict"
                   THEN Append(topics,
                               TopicOf(NoneVal, NoneList, NoneList, NoneList))
                   ELSE topics
             n == Len(ts)
         IN  CASE e.k = "task" ->
                   [ts EXCEPT ![n].tasks =
                       AddToList(@, IF e.ty = "dict" THEN TaskOf(e.v, e.done)
                                    ELSE NullTask)]
               [] e.k = "question" ->
                   [ts EXCEPT ![n].questions = AddToList(@, e.v)]
               [] OTHER ->
                   [ts EXCEPT ![n].notes = AddToList(@, e.v)]

RECURSIVE BuildTopics(_, _)
BuildTopics(es, acc) ==
    IF es = <<>> THEN acc ELSE BuildTopics(Tail(es), AddEntry(acc, Head(es)))

\* (filename, image_upload_id, now) of a call: without and with a handle
Envs ==
    {<<<<"x">>, "", "2026-02-17T10:00">>,
     <<<<"y", ".", "p", "n", "g">>, "file_upload_1", "2026-02-17T13:00">>}

FmtStart(p, f, u, n) ==
    /\ parsed = p
    /\ filename = f
    /\ image_upload_id = u
    /\ now = n
    /\ tz = "+01:00"
    /\ earlier = NoEarlierCall
    /\ other = NoOtherCall
    /\ running = 1
    /\ fpc = "route"
    /\ pos = 0
    /\ topic_title = <<>>
    /\ sections = <<>>
    /\ current_section = 0
    /\ pending_topics = <<>>
    /\ blocks = <<>>

(***************************************************************************)
(* The application (menubar_notes_to_notion.py): the watch folder, the     *)
(* startup batch and the observer threads, Pipeline.process and the remote *)
(* page.  Thread 0 is the main thread (start_watching and its batch, and   *)
(* stop_watching); thread g >= 1 is the observer thread of the g-th        *)
(* start_watching, which runs FolderHandler.on_created for one event at a  *)
(* time on the Pipeline built by that start_watching.                      *)
(*                                                                         *)
(* A block on the page is [c, k, fp, h1]: the k-th block created by the    *)
(* c-th appending call of process() for a file of fingerprint fp; c = 0    *)
(* for the blocks the page held before, h1 for a heading_1.  A block id is *)
(* <<c, k>>, and <<0, 0>> stands for None.                                 *)
(***************************************************************************)
MaxGen == 2

MaxFullChunks == 1

chunk == 60

Files == {"f1", "f2"}

Fingerprints == {"A", "B"}

Threads == 0..MaxGen

NoId == <<0, 0>>

BlockId(b) == <<b.c, b.k>>

\* len(blocks) of the calls: the three-block minimum, and one block more
\* than a number of full chunks
BlockCounts == {3} \cup {k * chunk + 1 : k \in 1..MaxFullChunks}

\* Two files hold the same content or not; which content is which is
\* immaterial
FingerprintMaps == {fps \in [Files -> Fingerprints] : fps["f1"] = "A"}

Existing(k, h1) == [c |-> 0, k |-> k, fp |-> "", h1 |-> h1]

\* The page before the first append: empty, without and with a heading_1
PageInits ==
    {<<>>, <<Existing(1, FALSE)>>, <<Existing(1, FALSE), Existing(2, TRUE)>>}

NoState == [processed |-> {}, last_note_url |-> NoId]

IdleCall ==
    [pc |-> "idle", path |-> "", pl |-> 0, fp |-> "", call |-> 0, n |-> 0,
     i |-> 0, after_id |-> NoId, first_h2 |-> NoId, resp_id |-> NoId]

IdleNotify == [pc |-> "idle", path |-> "", calls |-> 0]

\* An event written by an earlier run, and a thread that appends nothing
OldEvent == [thread |-> 0, call |-> 0]
IdleAppend == [pc |-> "idle", calls |-> 0, data |-> <<>>]

\* No cursor (None), and a child without "id" (None as a returned id)
NoCursor == 0
NoBlockId == ""

\* No listing call is in progress
IdleListing ==
    [op |-> "none", pc |-> "idle", cursor |-> NoCursor, ids |-> <<>>,
     result |-> NoBlockId, served |-> <<>>]

\* The application before start_watching, whatever the usage file holds
AppStart(fps, pg) ==
    /\ fpOf = fps
    /\ folder = <<>>
    /\ processedDir = {}
    /\ failedDir = {}
    /\ diskState = NoState
    /\ observer = 0
    /\ gen = 0
    /\ pstate = [g \in 1..MaxGen |-> NoState]
    /\ evq = [g \in 1..MaxGen |-> <<>>]
    /\ batch = <<>>
    /\ mainpc = "idle"
    /\ th = [t \in Threads |-> IdleCall]
    /\ ncalls = 0
    /\ page = pg
    /\ failed_paths = {}
    /\ nf_lock = {}
    /\ nf = [t \in Threads |-> IdleNotify]
    /\ notified = [f \in Files |-> 0]
    /\ usage_tmp = <<>>
    /\ write_lock = {}
    /\ ua = [t \in Threads |-> IdleAppend]
    /\ appended = <<>>
    /\ lc = IdleListing

\* The application before start_watching, the usage file missing
AppInit(fps, pg) ==
    /\ AppStart(fps, pg)
    /\ usage_file = <<>>
    /\ listing = <<>>

InFolder(f) == \E i \in 1..Len(folder) : folder[i] = f

RemoveFile(fs, f) == SelectSeq2(fs, [i \in 1..Len(fs) |-> fs[i] # f])

\* A file appears in the watch folder; a running observer queues the event
CreateFile(f) ==
    /\ ~InFolder(f) /\ f \notin processedDir \cup failedDir
    /\ folder' = Append(folder, f)
    /\ evq' = IF observer # 0
              THEN [evq EXCEPT ![observer] = Append(@, f)]
              ELSE evq
    /\ UNCHANGED <<fpOf, processedDir, failedDir, diskState, observer, gen,
                   pstate, batch, mainpc, th, ncalls, page>>
    /\ UNCHANGED fvars
    /\ UNCHANGED nvars
    /\ UNCHANGED uvars
    /\ UNCHANGED gvars

\* start_watching up to its batch loop: Pipeline(...) loads processed.json,
\* list_pending_images(watch) lists the folder
StartWatching ==
    /\ mainpc = "idle"
    /\ observer = 0
    /\ gen < MaxGen
    /\ gen' = gen + 1
    /\ pstate' = [pstate EXCEPT ![gen + 1] = diskState]
    /\ batch' = folder
    /\ mainpc' = "batch"
    /\ UNCHANGED <<fpOf, folder, processedDir, failedDir, diskState, observer,
                   evq, th, ncalls, page>>
    /\ UNCHANGED fvars
    /\ UNCHANGED nvars
    /\ UNCHANGED uvars
    /\ UNCHANGED gvars

StartCall(t, f, g) ==
    th' = [th EXCEPT ![t] = [IdleCall EXCEPT !.pc = "fingerprint",
                                             !.path = f, !.pl = g]]

\* for p in pending: pipeline.process(p) ...
BatchNext ==
    /\ mainpc = "batch"
    /\ th[0].pc = "idle"
    /\ batch # <<>>
    /\ StartCall(0, Head(batch), gen)
    /\ batch' = Tail(batch)
    /\ UNCHANGED <<fpOf, folder, processedDir, failedDir, diskState, observer,
                   gen, pstate, evq, mainpc, ncalls, page>>
    /\ UNCHANGED fvars
    /\ UNCHANGED nvars
    /\ UNCHANGED uvars
    /\ UNCHANGED gvars

\* self.observer = Observer(); schedule; start
ObserverStart ==
    /\ mainpc = "batch"
    /\ th[0].pc = "idle"
    /\ batch = <<>>
    /\ observer' = gen
    /\ mainpc' = "idle"
    /\ UNCHANGED <<fpOf, folder, processedDir, failedDir, diskState, gen,
                   pstate, evq, batch, th, ncalls, page>>
    /\ UNCHANGED fvars
    /\ UNCHANGED nvars
    /\ UNCHANGED uvars
    /\ UNCHANGED gvars

\* stop_watching: observer.stop(), join(timeout=5), self.observer = None.
\* The events still queued are dropped; a handler that is running when the
\* join times out runs on.
StopWatching ==
    /\ mainpc = "idle"
    /\ observer # 0
    /\ evq' = [evq EXCEPT ![observer] = <<>>]
    /\ observer' = 0
    /\ UNCHANGED <<fpOf, folder, processedDir, failedDir, diskState, gen,
                   pstate, batch, mainpc, th, ncalls, page>>
    /\ UNCHANGED fvars
    /\ UNCHANGED nvars
    /\ UNCHANGED uvars
    /\ UNCHANGED gvars

\* FolderHandler.on_created up to pipeline.process(path): the event is
\* dropped when the file is gone (FileNotFoundError from path.stat())
ObsDispatch(g) ==
    /\ g >= 1
    /\ observer = g
    /\ th[g].pc = "idle"
    /\ evq[g] # <<>>
    /\ evq' = [evq EXCEPT ![g] = Tail(@)]
    /\ IF InFolder(Head(evq[g]))
       THEN StartCall(g, Head(evq[g]), g)
       ELSE UNCHANGED th
    /\ UNCHANGED <<fpOf, folder, processedDir, failedDir, diskState, observer,
                   gen, pstate, batch, mainpc, ncalls, page>>
    /\ UNCHANGED fvars
    /\ UNCHANGED nvars
    /\ UNCHANGED uvars
    /\ UNCHANGED gvars

\* A Pipeline that has seen nothing
NeverSeen(g, fp) == fp \in {}

seen(g, fp) == fp \in pstate[g].processed

\* process(): fp = self.fingerprint(path); if self.seen(fp): return
Fingerprint(t) ==
    /\ th[t].pc = "fingerprint"
    /\ th' = [th EXCEPT ![t] =
                IF ~InFolder(th[t].path)
                THEN [@ EXCEPT !.pc = "raised"]
                ELSE IF seen(th[t].pl, fpOf[th[t].path])
                     THEN [@ EXCEPT !.pc = "returned",
                                    !.fp = fpOf[th[t].path]]
                     ELSE [@ EXCEPT !.pc = "transcribe",
                                    !.fp = fpOf[th[t].path]]]
    /\ UNCHANGED <<fpOf, folder, processedDir, failedDir, diskState, observer,
                   gen, pstate, evq, batch, mainpc, ncalls, page>>
    /\ UNCHANGED fvars
    /\ UNCHANGED nvars
    /\ UNCHANGED uvars
    /\ UNCHANGED gvars

\* find_first_h1_id, else the first child, else None
FirstAnchor(pg) ==
    IF \E i \in 1..Len(pg) : pg[i].h1
    THEN BlockId(pg[CHOOSE i \in 1..Len(pg) :
                        pg[i].h1 /\ \A j \in 1..(i - 1) : ~pg[j].h1])
    ELSE IF pg # <<>> THEN BlockId(pg[1]) ELSE NoId

\* process() from image_to_jpeg_bytes to the anchor: conversion, upload
\* (best effort), transcription, usage record, build_notion_blocks and the
\* insert-after anchor.  ok = FALSE: conversion or transcription raised.
\* n is len(blocks); resolved = FALSE: resolving the anchor raised.
Transcribe(t) ==
    /\ th[t].pc = "transcribe"
    /\ \E ok \in BOOLEAN, n \in BlockCounts, resolved \in BOOLEAN :
          IF ok
          THEN /\ th' = [th EXCEPT ![t] =
                           [@ EXCEPT !.pc = "append", !.n = n, !.i = 0,
                                     !.call = ncalls + 1,
                                     !.after_id = IF resolved
                                                  THEN FirstAnchor(page)
                                                  ELSE NoId]]
               /\ ncalls' = ncalls + 1
          ELSE /\ th' = [th EXCEPT ![t] = [@ EXCEPT !.pc = "raised"]]
               /\ UNCHANGED ncalls
    /\ UNCHANGED <<fpOf, folder, processedDir, failedDir, diskState, observer,
                   gen, pstate, evq, batch, mainpc, page>>
    /\ UNCHANGED fvars
    /\ UNCHANGED nvars
    /\ UNCHANGED uvars
    /\ UNCHANGED gvars

Position(pg, id) ==
    IF \E i \in 1..Len(pg) : BlockId(pg[i]) = id
    THEN CHOOSE i \in 1..Len(pg) : BlockId(pg[i]) = id
    ELSE 0

\* The page after append_children(page_id, children, after_block_id):
\* the children directly after the anchor, at the end without one
InsertAfter(pg, anchor, children) ==
    IF anchor = NoId THEN pg \o children
    ELSE SubSeq(pg, 1, Position(pg, anchor)) \o children
         \o SubSeq(pg, Position(pg, anchor) + 1, Len(pg))

Min(a, b) == IF a < b THEN a ELSE b

\* The id of the last block of the response
NextAnchorLast(results) == BlockId(results[Len(results)])

\* results[0].get("id"): the anchor the code takes for the next chunk
NextAnchor(results) == BlockId(results[1])

\* A loop that ends behind its first chunk
FinishAfterFirstChunk(last, n) == IF last <= n THEN "finish" ELSE "append"

\* for i in range(0, len(blocks), chunk): the loop ends behind the chunk
\* that holds the last block
AfterChunk(last, n) == IF last = n THEN "finish" ELSE "append"

\* One iteration of the chunk loop: append_children for blocks[i:i+chunk],
\* first_h2_block_id, the new after_id.  ok = FALSE: the request failed.
\* withId = FALSE: the response carries no block id.
AppendChunk(t, withId) ==
    /\ th[t].pc = "append"
    /\ \E ok \in BOOLEAN :
          IF ok /\ (th[t].after_id = NoId \/ Position(page, th[t].after_id) # 0)
          THEN LET c == th[t]
                   last == Min(c.i + chunk, c.n)
                   children == [j \in 1..(last - c.i) |->
                                   [c |-> c.call, k |-> c.i + j,
                                    fp |-> c.fp, h1 |-> FALSE]]
               IN  /\ page' = InsertAfter(page, c.after_id, children)
                   /\ th' = [th EXCEPT ![t] =
                               [@ EXCEPT !.i = last,
                                         !.resp_id =
                                            IF withId
                                            THEN BlockId(children[1])
                                            ELSE NoId,
                                         !.after_id =
                                            IF withId
                                            THEN NextAnchor(children)
                                            ELSE c.after_id,
                                         !.first_h2 =
                                            IF c.first_h2 = NoId /\ withId
                                            THEN BlockId(children[1])
                                            ELSE c.first_h2,
                                         !.pc = AfterChunk(last, c.n)]]
          ELSE /\ th' = [th EXCEPT ![t] = [@ EXCEPT !.pc = "raised"]]
               /\ UNCHANGED page
    /\ UNCHANGED <<fpOf, folder, processedDir, failedDir, diskState, observer,
                   gen, pstate, evq, batch, mainpc, ncalls>>
    /\ UNCHANGED fvars
    /\ UNCHANGED nvars
    /\ UNCHANGED uvars
    /\ UNCHANGED gvars

\* After the chunk loop: last_note_url when the first heading_2 has an id,
\* the success notification, self.mark(fp, name) and with it
\* state_save(self.state)
Finish(t) ==
    /\ th[t].pc = "finish"
    /\ LET st == [processed |-> pstate[th[t].pl].processed \cup {th[t].fp},
                  last_note_url |-> IF th[t].first_h2 # NoId
                                    THEN th[t].first_h2
                                    ELSE pstate[th[t].pl].last_note_url]
       IN  /\ pstate' = [pstate EXCEPT ![th[t].pl] = st]
           /\ diskState' = st
    /\ th' = [th EXCEPT ![t] = [@ EXCEPT !.pc = "returned"]]
    /\ UNCHANGED <<fpOf, folder, processedDir, failedDir, observer, gen,
                   evq, batch, mainpc, ncalls, page>>
    /\ UNCHANGED fvars
    /\ UNCHANGED nvars
    /\ UNCHANGED uvars
    /\ UNCHANGED gvars

\* notify_failed_image(path, exc) as one step: the first call for a path
\* records it and hands a notification to notify() (sent = FALSE: notify
\* raised and the error was logged); a later call returns at once.
notify_failed_image(f) ==
    /\ failed_paths' = failed_paths \cup {f}
    /\ IF f \in failed_paths
       THEN UNCHANGED notified
       ELSE \E sent \in BOOLEAN :
               notified' = [notified EXCEPT ![f] = IF sent THEN @ + 1 ELSE @]

\* The caller after process(), to the end of the handler.  When process
\* returned: path.replace(_processed/name), which raises when the file is
\* gone.  When process or that move raised: the move to _failed (errors
\* ignored) and notify_failed_image.  In both cases the menu refresh of the
\* finally clause ends the handler.
Complete(t) ==
    /\ th[t].pc \in {"returned", "raised"}
    /\ LET f == th[t].path
           there == InFolder(f)
           failure == th[t].pc = "raised" \/ ~there
           dest == IF ~there THEN ""
                   ELSE IF failure THEN "failed" ELSE "processed"
       IN  /\ folder' = IF there THEN RemoveFile(folder, f) ELSE folder
           /\ processedDir' = IF dest = "processed"
                               THEN processedDir \cup {f} ELSE processedDir
           /\ failedDir' = IF dest = "failed"
                            THEN failedDir \cup {f} ELSE failedDir
           /\ IF failure
              THEN notify_failed_image(f)
              ELSE UNCHANGED <<failed_paths, notified>>
           /\ th' = [th EXCEPT ![t] = IdleCall]
    /\ UNCHANGED <<fpOf, diskState, observer, gen, pstate, evq, batch,
                   mainpc, ncalls, page>>
    /\ UNCHANGED <<nf_lock, nf>>
    /\ UNCHANGED fvars
    /\ UNCHANGED uvars
    /\ UNCHANGED gvars

Next ==
    \/ \E f \in Files : CreateFile(f)
    \/ StartWatching
    \/ BatchNext
    \/ ObserverStart
    \/ StopWatching
    \/ \E g \in Threads : ObsDispatch(g)
    \/ \E t \in Threads : Fingerprint(t)
    \/ \E t \in Threads : Transcribe(t)
    \/ \E t \in Threads : AppendChunk(t, TRUE)
    \/ \E t \in Threads : Finish(t)
    \/ \E t \in Threads : Complete(t)

vars == <<fvars, pvars, nvars, uvars, gvars>>

\* One start of the watcher, the append responses with and without ids
ChunkNext ==
    \/ \E f \in Files : CreateFile(f)
    \/ StartWatching
    \/ BatchNext
    \/ ObserverStart
    \/ \E g \in Threads : ObsDispatch(g)
    \/ \E t \in Threads : Fingerprint(t)
    \/ \E t \in Threads : Transcribe(t)
    \/ \E t \in Threads, withId \in BOOLEAN : AppendChunk(t, withId)
    \/ \E t \in Threads : Finish(t)
    \/ \E t \in Threads : Complete(t)

\* No call of build_notion_blocks is followed step by step
FmtIdle ==
    /\ parsed = NoneVal
    /\ filename = <<>>
    /\ image_upload_id = ""
    /\ now = ""
    /\ tz = "+01:00"
    /\ earlier = NoEarlierCall
    /\ other = NoOtherCall
    /\ running = 1
    /\ fpc = "idle"
    /\ pos = 0
    /\ topic_title = <<>>
    /\ sections = <<>>
    /\ current_section = 0
    /\ pending_topics = <<>>
    /\ blocks = <<>>

\* The application: the formatter's result enters as len(blocks) only
Init ==
    /\ \E fps \in FingerprintMaps, pg \in PageInits : AppInit(fps, pg)
    /\ FmtIdle

Spec == Init /\ [][Next]_vars

\* Notes and questions that run over two lines
TwoLineNotes ==
    {<<"1", ".", " ", "a", "\n", "b">>, <<"#", " ", "a", "\n", "b">>,
     <<"-", " ", "a", "\n", "b">>, <<".", " ", "a", "\n", "b">>,
     <<"?", " ", "1", ".", " ", "a", "\n", "b">>, <<"a", "\n", "1", ".", " ", "b">>}

\* The strings of length k over LineAlphabet
StringsOfLen(k) == [1..k -> LineAlphabet]

\* One topic holding the line l as its only note or its only question
LineStart(l) ==
    \E p \in {OneNote(l), OneQuestion(l)} :
        FmtStart(p, <<"x">>, "", "2026-02-17T10:00")

\* The transcription written as the entries es
EntriesStart(es) ==
    \E e \in Envs :
        FmtStart(ParsedOf(ListVal(BuildTopics(es, <<>>))), e[1], e[2], e[3])

\* build_notion_blocks called on its own, as the tests call it
InitFmt ==
    /\ AppInit([f \in Files |-> "A"], <<>>)
    /\ \/ \E k \in 0..MaxLineLen : \E l \in StringsOfLen(k) : LineStart(l)
       \/ \E p \in LinePrefixes, k \in 0..MaxRestLen :
             \E r \in StringsOfLen(k) : LineStart(p \o r)
       \/ \E l \in TwoLineNotes : LineStart(l)
       \/ \E t \in TaskTexts, d \in {"absent", "none", "true", "false"} :
             FmtStart(OneTask(TaskOf(t, d)), <<"x">>, "", "2026-02-17T10:00")
       \/ \E k \in 0..MaxItems : \E es \in [1..k -> EntryVocab] :
             EntriesStart(es)
       \/ \E e \in Envs : FmtStart(ParsedOf(NoneList), e[1], e[2], e[3])
       \/ \E t1, t2 \in TopicTitles :
             FmtStart(TwoTopics(t1, t2), <<"x">>, "", "2026-02-17T10:00")

InitMalformed ==
    /\ AppInit([f \in Files |-> "A"], <<>>)
    /\ \E k \in 0..MaxBadItems : \E es \in [1..k -> MalformedVocab] :
          EntriesStart(es)

SpecFmt == InitFmt /\ [][FmtNext]_vars

SpecMalformed == InitMalformed /\ [][FmtNext]_vars

(***************************************************************************)
(* notify_failed_image step by step.  Any thread (the watcher threads and  *)
(* the startup batch) calls it for any path, up to MaxFailCalls times      *)
(* each; the key of a path is the path.                                    *)
(***************************************************************************)
MaxFailCalls == 2

\* notify_failed_image(path, exc) is entered
NfCall(t, f) ==
    /\ nf[t].pc = "idle"
    /\ nf[t].calls < MaxFailCalls
    /\ nf' = [nf EXCEPT ![t] = [pc |-> "lock", path |-> f,
                                calls |-> @.calls + 1]]
    /\ UNCHANGED <<failed_paths, nf_lock, notified>>
    /\ UNCHANGED <<fvars, pvars, uvars, gvars>>

\* A lock that lets every thread in
LockIgnored == TRUE

\* _failed_notification_lock can be acquired
LockFree == nf_lock = {}

\* with _failed_notification_lock:
NfAcquire(t) ==
    /\ nf[t].pc = "lock"
    /\ LockFree
    /\ nf_lock' = nf_lock \cup {t}
    /\ nf' = [nf EXCEPT ![t].pc = "check"]
    /\ UNCHANGED <<failed_paths, notified>>
    /\ UNCHANGED <<fvars, pvars, uvars, gvars>>

\* if key in _failed_notification_paths: return
NfCheck(t) ==
    /\ nf[t].pc = "check"
    /\ IF nf[t].path \in failed_paths
       THEN /\ nf' = [nf EXCEPT ![t].pc = "idle"]
            /\ nf_lock' = nf_lock \ {t}
       ELSE /\ nf' = [nf EXCEPT ![t].pc = "add"]
            /\ UNCHANGED nf_lock
    /\ UNCHANGED <<failed_paths, notified>>
    /\ UNCHANGED <<fvars, pvars, uvars, gvars>>

\* _failed_notification_paths.add(key), and the lock is released
NfAdd(t) ==
    /\ nf[t].pc = "add"
    /\ failed_paths' = failed_paths \cup {nf[t].path}
    /\ nf_lock' = nf_lock \ {t}
    /\ nf' = [nf EXCEPT ![t].pc = "send"]
    /\ UNCHANGED notified
    /\ UNCHANGED <<fvars, pvars, uvars, gvars>>

\* notify("Notat feilet", body, ...); sent = FALSE: notify raised and the
\* error was logged
NfSend(t) ==
    /\ nf[t].pc = "send"
    /\ \E sent \in BOOLEAN :
          notified' = [notified EXCEPT ![nf[t].path] =
                          IF sent THEN @ + 1 ELSE @]
    /\ nf' = [nf EXCEPT ![t].pc = "idle"]
    /\ UNCHANGED <<failed_paths, nf_lock>>
    /\ UNCHANGED <<fvars, pvars, uvars, gvars>>

NotifyNext ==
    \/ \E t \in Threads, f \in Files : NfCall(t, f)
    \/ \E t \in Threads : NfAcquire(t)
    \/ \E t \in Threads : NfCheck(t)
    \/ \E t \in Threads : NfAdd(t)
    \/ \E t \in Threads : NfSend(t)

InitNotify ==
    /\ AppInit([f \in Files |-> "A"], <<>>)
    /\ FmtIdle

SpecNotify == InitNotify /\ [][NotifyNext]_vars

(***************************************************************************)
(* usage_tracker.append_event step by step, no step failing.  Any thread  *)
(* calls it up to MaxAppendCalls times; the event of a call is named by   *)
(* its thread and its number.                                              *)
(***************************************************************************)
MaxAppendCalls == 2

NewEvent(t) == [thread |-> t, call |-> ua[t].calls]

\* append_event(path, event) is entered
UaCall(t) ==
    /\ ua[t].pc = "idle"
    /\ ua[t].calls < MaxAppendCalls
    /\ ua' = [ua EXCEPT ![t] = [pc |-> "lock", calls |-> @.calls + 1,
                                data |-> <<>>]]
    /\ UNCHANGED <<usage_file, usage_tmp, write_lock, appended>>
    /\ UNCHANGED <<fvars, pvars, nvars, gvars>>

\* A lock that lets every thread in
WriteLockIgnored == TRUE

\* _WRITE_LOCK can be acquired
WriteLockFree == write_lock = {}

\* with _WRITE_LOCK:
UaAcquire(t) ==
    /\ ua[t].pc = "lock"
    /\ WriteLockFree
    /\ write_lock' = write_lock \cup {t}
    /\ ua' = [ua EXCEPT ![t].pc = "load"]
    /\ UNCHANGED <<usage_file, usage_tmp, appended>>
    /\ UNCHANGED <<fvars, pvars, nvars, gvars>>

\* The events of the file; a missing file has none
load_usage == usage_file

\* data = load_usage(path); events.append({...})
UaLoad(t) ==
    /\ ua[t].pc = "load"
    /\ ua' = [ua EXCEPT ![t].pc = "write",
                        ![t].data = Append(load_usage, NewEvent(t))]
    /\ UNCHANGED <<usage_file, usage_tmp, write_lock, appended>>
    /\ UNCHANGED <<fvars, pvars, nvars, gvars>>

\* _atomic_write_json: tmp.write_text(json.dumps(data))
UaWriteTmp(t) ==
    /\ ua[t].pc = "write"
    /\ usage_tmp' = ua[t].data
    /\ ua' = [ua EXCEPT ![t].pc = "replace"]
    /\ UNCHANGED <<usage_file, write_lock, appended>>
    /\ UNCHANGED <<fvars, pvars, nvars, gvars>>

\* _atomic_write_json: tmp.replace(path); the lock is released and
\* append_event returns
UaReplace(t) ==
    /\ ua[t].pc = "replace"
    /\ usage_file' = usage_tmp
    /\ usage_tmp' = <<>>
    /\ write_lock' = write_lock \ {t}
    /\ appended' = Append(appended, NewEvent(t))
    /\ ua' = [ua EXCEPT ![t].pc = "idle", ![t].data = <<>>]
    /\ UNCHANGED <<fvars, pvars, nvars, gvars>>

UsageNext ==
    \/ \E t \in Threads : UaCall(t)
    \/ \E t \in Threads : UaAcquire(t)
    \/ \E t \in Threads : UaLoad(t)
    \/ \E t \in Threads : UaWriteTmp(t)
    \/ \E t \in Threads : UaReplace(t)

InitUsage ==
    /\ AppStart([f \in Files |-> "A"], <<>>)
    /\ usage_file \in {<<>>, <<OldEvent>>}
    /\ listing = <<>>
    /\ FmtIdle

SpecUsage == InitUsage /\ [][UsageNext]_vars

SpecChunks == Init /\ [][ChunkNext]_vars

\* One start of the watcher with every thread of the program running on:
\* the main thread goes through start_watching (the batch loop, then
\* observer.start()), the observer thread delivers every queued event, and
\* a call of process() and the handler around it take their next step.
\* Nothing is assumed of the user (start_watching is clicked or not) and
\* of the files that are created.
ProgramRuns ==
    /\ WF_vars(BatchNext)
    /\ WF_vars(ObserverStart)
    /\ \A g \in Threads : WF_vars(ObsDispatch(g))
    /\ \A t \in Threads :
          /\ WF_vars(Fingerprint(t))
          /\ WF_vars(Transcribe(t))
          /\ WF_vars(\E withId \in BOOLEAN : AppendChunk(t, withId))
          /\ WF_vars(Finish(t))
          /\ WF_vars(Complete(t))

SpecWatching == Init /\ [][ChunkNext]_vars /\ ProgramRuns

(***************************************************************************)
(* NotionClient.list_children_ids and find_first_h1_id, one request per    *)
(* step.  The server holds MaxPages pages of children; a request without a *)
(* cursor is answered with page 1, a request with cursor c with page c.    *)
(* A page says what it likes in has_more and next_cursor, so a cursor may  *)
(* be missing although has_more is true, or lead back to an earlier page;  *)
(* a call makes at most MaxRequests requests.                              *)
(***************************************************************************)
MaxPages == 2

MaxRequests == 3

ChildBlock(id, type) == [id |-> id, type |-> type]

\* The "results" of a page
ResultLists ==
    {<<>>,
     <<ChildBlock("a", "paragraph")>>,
     <<ChildBlock("h", "heading_1")>>,
     <<ChildBlock("a", "paragraph"), ChildBlock("b", "paragraph")>>,
     <<ChildBlock("a", "paragraph"), ChildBlock("h", "heading_1")>>,
     <<ChildBlock("h", "heading_1"), ChildBlock("g", "heading_1")>>,
     <<ChildBlock(NoBlockId, "paragraph"), ChildBlock("c", "paragraph")>>}

\* The answers of the server: ok is status_code < 300
ServerPages ==
    [results : ResultLists, has_more : BOOLEAN,
     next_cursor : 0..MaxPages, ok : BOOLEAN]

\* requests.get(url): the page for this cursor
PageFor(cursor) == IF cursor = NoCursor THEN 1 ELSE cursor

\* [b.get("id") for b in results if b.get("id")]
IdsOf(results) ==
    LET withId == SelectSeq2(results, [i \in 1..Len(results) |->
                                         results[i].id # NoBlockId])
    IN  [i \in 1..Len(withId) |-> withId[i].id]

\* The heading_1 blocks of results, by position
H1In(results) == {i \in 1..Len(results) : results[i].type = "heading_1"}

\* A loop that goes on whenever the page names a cursor
MorePagesIgnoringHasMore(data) == data.next_cursor # NoCursor

\* if not data.get("has_more"): stop; cursor = data.get("next_cursor");
\* if not cursor: stop
MorePages(data) == data.has_more /\ data.next_cursor # NoCursor

\* list_children_ids or find_first_h1_id is called
ListingCall(op) ==
    /\ lc.pc = "idle"
    /\ lc' = [IdleListing EXCEPT !.op = op, !.pc = "loop"]
    /\ UNCHANGED listing
    /\ UNCHANGED <<fvars, pvars, nvars, uvars>>

\* One iteration of the loop of list_children_ids
ListChildrenStep ==
    /\ lc.op = "list"
    /\ lc.pc = "loop"
    /\ Len(lc.served) < MaxRequests
    /\ LET p == PageFor(lc.cursor)
           data == listing[p]
           ids == lc.ids \o IdsOf(data.results)
       IN  lc' = IF ~data.ok
                 THEN [lc EXCEPT !.pc = "raised",
                                 !.served = Append(@, p)]
                 ELSE IF MorePages(data)
                 THEN [lc EXCEPT !.ids = ids, !.served = Append(@, p),
                                 !.cursor = data.next_cursor]
                 ELSE [lc EXCEPT !.ids = ids, !.served = Append(@, p),
                                 !.pc = "returned"]
    /\ UNCHANGED listing
    /\ UNCHANGED <<fvars, pvars, nvars, uvars>>

\* One iteration of the loop of find_first_h1_id
FindFirstH1Step ==
    /\ lc.op = "find"
    /\ lc.pc = "loop"
    /\ Len(lc.served) < MaxRequests
    /\ LET p == PageFor(lc.cursor)
           data == listing[p]
           h1 == H1In(data.results)
       IN  lc' = IF ~data.ok
                 THEN [lc EXCEPT !.pc = "raised",
                                 !.served = Append(@, p)]
                 ELSE IF h1 # {}
                 THEN [lc EXCEPT !.pc = "returned", !.served = Append(@, p),
                          !.result =
                              data.results[CHOOSE i \in h1 :
                                              \A j \in h1 : i <= j].id]
                 ELSE IF MorePages(data)
                 THEN [lc EXCEPT !.served = Append(@, p),
                                 !.cursor = data.next_cursor]
                 ELSE [lc EXCEPT !.pc = "returned", !.served = Append(@, p),
                                 !.result = NoBlockId]
    /\ UNCHANGED listing
    /\ UNCHANGED <<fvars, pvars, nvars, uvars>>

ListingNext ==
    \/ \E op \in {"list", "find"} : ListingCall(op)
    \/ ListChildrenStep
    \/ FindFirstH1Step

InitListing ==
    /\ AppStart([f \in Files |-> "A"], <<>>)
    /\ usage_file = <<>>
    /\ listing \in [1..MaxPages -> ServerPages]
    /\ FmtIdle

SpecListing == InitListing /\ [][ListingNext]_vars

TwiceNext ==
    \/ FmtNext
    \/ CallAgain

\* build_notion_blocks called twice with the same arguments
SpecTwice == InitFmt /\ [][TwiceNext]_vars

\* Two threads inside build_notion_blocks at once, on the same parsed object
MaxConcItems == 3

InitConcurrent ==
    /\ AppInit([f \in Files |-> "A"], <<>>)
    /\ \E k \in 0..MaxConcItems : \E es \in [1..k -> EntryVocab] :
          EntriesStart(es)

ConcurrentNext ==
    \/ FmtNext
    \/ CallConcurrently
    \/ SwitchThread

SpecConcurrent == InitConcurrent /\ [][ConcurrentNext]_vars

(***************************************************************************)
(* Properties of the application.                                          *)
(***************************************************************************)
\* The call has sent every chunk of its blocks
AllSubmitted(t) == th[t].call # 0 /\ th[t].pc \in {"finish", "returned"}

\* The n blocks of call c sit on the page side by side, in the order 1..n
InOrderOnPage(c, n) ==
    \E p \in 0..(Len(page) - n) :
        \A k \in 1..n : page[p + k].c = c /\ page[p + k].k = k

\* C1: once process() has submitted all chunks of more than 60 blocks, the
\* blocks it created sit on the page contiguously and in the order
\* build_notion_blocks produced them.
C1_ChunksLandInOrder ==
    \A t \in Threads :
        (AllSubmitted(t) /\ th[t].n > chunk) =>
            InOrderOnPage(th[t].call, th[t].n)

\* The call is past the dedup check and has not returned or raised
InFlight(t) == th[t].pc \in {"transcribe", "append", "finish"}

\* C2: whatever process() calls overlap, no two of them are in flight for
\* the same file fingerprint at the same time.
C2_OneInFlightPerFingerprint ==
    \A t1, t2 \in Threads :
        (t1 # t2 /\ InFlight(t1) /\ InFlight(t2)) => th[t1].fp # th[t2].fp

(***************************************************************************)
(* Properties of build_notion_blocks.                                      *)
(***************************************************************************)
Returned == fpc = "done"

BlockIdx(type) == {i \in 1..Len(blocks) : blocks[i].type = type}

\* The section title of a heading_2: its text after " <dash> "
H2Title(b) == Drop(b.text, Len(HeadingDash))

H2Titles ==
    LET hs == SelectSeq2(blocks, [i \in 1..Len(blocks) |->
                                      blocks[i].type = "heading_2"])
    IN  [i \in 1..Len(hs) |-> H2Title(hs[i])]

ContentTypes == {"to_do", "bulleted_list_item", "numbered_list_item"}

\* The raw note lines of the input, in processing order
NoteLines ==
    LET st == Steps(parsed)
        ns == SelectSeq2(st, [i \in 1..Len(st) |-> st[i].k = "note"])
    IN  [i \in 1..Len(ns) |-> PyStr(ns[i].note)]

\* The input is one topic with one note line and nothing else
SingleNoteInput ==
    /\ Len(Steps(parsed)) = 2
    /\ Steps(parsed)[2].k = "note"

\* C3: build_notion_blocks never raises, whatever field or list element is
\* absent, null or of the wrong type: every call returns its blocks.
C3_NeverRaises == fpc # "raised"

\* What a step of the input holds: a section marker, content, or nothing
StepRole(st) ==
    CASE st.k = "task" ->
            IF st.task.ty = "dict" /\ st.task.text.ty = "str"
               /\ Strip(st.task.text.s) # <<>>
            THEN [role |-> "content", title |-> <<>>]
            ELSE [role |-> "nothing", title |-> <<>>]
      [] st.k = "question" ->
            IF strip_known_prefix(PyStr(st.q)) # <<>>
            THEN [role |-> "content", title |-> <<>>]
            ELSE [role |-> "nothing", title |-> <<>>]
      [] st.k = "note" ->
            LET c == _split_prefix_kind(PyStr(st.note))
            IN  IF c.kind = "hash" THEN [role |-> "marker", title |-> c.text]
                ELSE IF c.text # <<>>
                     THEN [role |-> "content", title |-> <<>>]
                     ELSE [role |-> "nothing", title |-> <<>>]
      [] OTHER -> [role |-> "nothing", title |-> <<>>]

\* The marker sections of the input, each with whether it holds content:
\* a scan of the items in processing order, content before the first marker
\* counting for the first marker's section.
RECURSIVE MarkerScan(_, _, _)
MarkerScan(st, acc, pre) ==
    IF st = <<>> THEN acc
    ELSE LET r == StepRole(Head(st))
         IN  CASE r.role = "marker" ->
                    MarkerScan(Tail(st),
                        Append(acc, [title |-> r.title,
                                     has |-> acc = <<>> /\ pre]),
                        pre)
               [] r.role = "content" /\ acc = <<>> ->
                    MarkerScan(Tail(st), acc, TRUE)
               [] r.role = "content" /\ acc # <<>> ->
                    MarkerScan(Tail(st),
                        [acc EXCEPT ![Len(acc)].has = TRUE], pre)
               [] OTHER -> MarkerScan(Tail(st), acc, pre)

MarkerSections == MarkerScan(Steps(parsed), <<>>, FALSE)

NonEmptyMarkerTitles ==
    LET ms == MarkerSections
        ks == SelectSeq2(ms, [i \in 1..Len(ms) |-> ms[i].has])
    IN  [i \in 1..Len(ks) |-> ks[i].title]

\* C4: when at least one marker section has content, the heading_2 blocks
\* are exactly the marker sections that hold content, in marker order; a
\* marker section that holds none gets no heading_2.
C4_OneHeadingPerNonEmptySection ==
    (Returned /\ NonEmptyMarkerTitles # <<>>)
        => H2Titles = NonEmptyMarkerTitles

\* A returned call whose input has an empty marker section next to one with
\* content.
C4_Witness ==
    /\ Returned
    /\ NonEmptyMarkerTitles # <<>>
    /\ Len(NonEmptyMarkerTitles) < Len(MarkerSections)
    /\ Len(H2Titles) = Len(NonEmptyMarkerTitles)

\* A line made of one leaked prefix character, an optional space, '#' and a
\* non-empty title; its title, <<>> when the line is not of that form.
PrefixedMarkerTitle(l) ==
    LET r == IF Len(l) >= 2 /\ l[2] = " " THEN Drop(l, 2) ELSE Drop(l, 1)
    IN  IF l # <<>> /\ l[1] \in PrefixChars /\ r # <<>> /\ r[1] = "#"
        THEN Strip(Tail(r))
        ELSE <<>>

\* C5: a notes line made of one leaked prefix character, optionally a
\* space, then '#' and a non-empty title is a section marker with that
\* title: it opens a section and is rendered as no task, question or note.
C5_PrefixedHashIsMarker ==
    Returned =>
        /\ \A i \in 1..Len(NoteLines) :
              PrefixedMarkerTitle(NoteLines[i]) # <<>> =>
                 _split_prefix_kind(NoteLines[i]) =
                    [kind |-> "hash",
                     text |-> PrefixedMarkerTitle(NoteLines[i])]
        /\ (SingleNoteInput /\ PrefixedMarkerTitle(NoteLines[1]) # <<>>) =>
              \A i \in 1..Len(blocks) : blocks[i].type \notin ContentTypes

IsQuestionBullet(b) ==
    b.type = "bulleted_list_item" /\ StartsWith(b.text, QuestionGlyph)

\* A leaked numeric prefix: digits followed by '.' or a space
LeakedNumber(q) ==
    LET d == SpanLen(q, Digits)
    IN  d >= 1 /\ Len(q) > d /\ q[d + 1] \in {".", " "}

\* C6: the text of every rendered question, after the glyph and a space,
\* starts neither with a leaked '?' nor with a leaked numeric prefix.
C6_QuestionTextIsClean ==
    Returned =>
        \A i \in 1..Len(blocks) :
            IsQuestionBullet(blocks[i]) =>
                LET q == Drop(blocks[i].text, Len(QuestionGlyph))
                IN  /\ ~StartsWith(q, <<"?">>)
                    /\ ~LeakedNumber(q)

HasToDo(text, checked) ==
    \E i \in 1..Len(blocks) :
        /\ blocks[i].type = "to_do"
        /\ blocks[i].text = text
        /\ blocks[i].checked = checked

\* '#' followed by a title: what makes a line a section marker
IsHashTitle(r) == r # <<>> /\ r[1] = "#" /\ Strip(Tail(r)) # <<>>

OpenPrefix(l) == StartsWith(l, <<".", " ">>)

DonePrefix(l) == StartsWith(l, <<"x", " ">>) \/ StartsWith(l, <<"X", " ">>)

GlyphPrefix(l) == l # <<>> /\ l[1] \in BulletGlyphs

\* C7 as stated: every notes line that begins with ". " or a bullet glyph is
\* rendered as an unchecked to_do, every line that begins with "x " or "X "
\* as a checked one, the text being the line with the prefix removed.
C7_PrefixedLineIsToDo ==
    Returned =>
        \A i \in 1..Len(NoteLines) :
            LET l == NoteLines[i]
            IN  /\ OpenPrefix(l) => HasToDo(Drop(l, 2), FALSE)
                /\ GlyphPrefix(l) => HasToDo(Drop(l, 1), FALSE)
                /\ DonePrefix(l) => HasToDo(Drop(l, 2), TRUE)

\* C7 as amended: the same for the lines whose remainder is not blank and,
\* behind ". ", "x " or "X ", is not '#' with a title (such a line is a
\* section marker); the to_do text is the remainder with the whitespace
\* around it trimmed.  A single such line gives a to_do and nothing else.
C7_PrefixedContentLineIsToDo ==
    Returned =>
        /\ \A i \in 1..Len(NoteLines) :
            LET l == NoteLines[i]
                r2 == Strip(Drop(l, 2))
                r1 == Strip(Drop(l, 1))
            IN  /\ (OpenPrefix(l) /\ r2 # <<>> /\ ~IsHashTitle(r2))
                      => HasToDo(r2, FALSE)
                /\ (GlyphPrefix(l) /\ r1 # <<>>) => HasToDo(r1, FALSE)
                /\ (DonePrefix(l) /\ r2 # <<>> /\ ~IsHashTitle(r2))
                      => HasToDo(r2, TRUE)
        /\ (SingleNoteInput
            /\ \/ GlyphPrefix(NoteLines[1]) /\ Strip(Drop(NoteLines[1], 1)) # <<>>
               \/ /\ OpenPrefix(NoteLines[1]) \/ DonePrefix(NoteLines[1])
                  /\ Strip(Drop(NoteLines[1], 2)) # <<>>
                  /\ ~IsHashTitle(Strip(Drop(NoteLines[1], 2))))
           => /\ Len(blocks) = 5
              /\ blocks[5].type = "to_do"

\* A returned call on a single "X ..." line with text behind the prefix,
\* rendered as a checked to_do.
C7_Witness ==
    /\ Returned
    /\ SingleNoteInput
    /\ StartsWith(NoteLines[1], <<"X", " ">>)
    /\ Strip(Drop(NoteLines[1], 2)) # <<>>
    /\ ~IsHashTitle(Strip(Drop(NoteLines[1], 2)))
    /\ HasToDo(Strip(Drop(NoteLines[1], 2)), TRUE)

\* C8: no heading_2 title begins with '#', and no bullet rendered from a
\* notes array has text that begins with '#'.
C8_NoHashKept ==
    Returned =>
        \A i \in 1..Len(blocks) :
            /\ blocks[i].type = "heading_2"
                  => ~StartsWith(H2Title(blocks[i]), <<"#">>)
            /\ (blocks[i].type = "bulleted_list_item"
                /\ ~IsQuestionBullet(blocks[i]))
                  => ~StartsWith(blocks[i].text, <<"#">>)

\* The input carries no non-empty task, note or question
NoContent ==
    \A i \in 1..Len(Steps(parsed)) :
        LET st == Steps(parsed)[i]
        IN  /\ st.k = "task" =>
                 (st.task.ty = "dict" /\ st.task.text.ty # "int"
                  /\ Strip(st.task.text.s) = <<>>)
            /\ st.k = "question" => Strip(PyStr(st.q)) = <<>>
            /\ st.k = "note" => Strip(PyStr(st.note)) = <<>>

\* C9: an input with no non-empty task, note or question gives exactly
\* three blocks: a heading_2, the source block (an image when a handle is
\* supplied, else a paragraph), a divider.
C9_EmptyInputGivesThreeBlocks ==
    (Returned /\ NoContent) =>
        /\ Len(blocks) = 3
        /\ blocks[1].type = "heading_2"
        /\ blocks[2].type =
              (IF image_upload_id # "" THEN "image" ELSE "paragraph")
        /\ blocks[3].type = "divider"

\* A returned call on an input that has topics and blank items but nothing
\* to render, with an attachment handle.
C9_Witness ==
    /\ Returned
    /\ NoContent
    /\ Len(Steps(parsed)) >= 3
    /\ image_upload_id # ""
    /\ Len(blocks) = 3

\* C10: exactly one source block in the whole output, directly after the
\* first heading_2 and directly before the first divider: the image with
\* the handle when a handle is supplied, the "Source: <filename>" paragraph
\* when not.
C10_OneSourceBlock ==
    Returned =>
        /\ BlockIdx("heading_2") # {}
        /\ BlockIdx("divider") # {}
        /\ LET h == CHOOSE i \in BlockIdx("heading_2") :
                        \A j \in BlockIdx("heading_2") : i <= j
               d == CHOOSE i \in BlockIdx("divider") :
                        \A j \in BlockIdx("divider") : i <= j
           IN  /\ d = h + 2
               /\ BlockIdx("image") \cup BlockIdx("paragraph") = {h + 1}
               /\ IF image_upload_id # ""
                  THEN /\ blocks[h + 1].type = "image"
                       /\ blocks[h + 1].upload = image_upload_id
                  ELSE /\ blocks[h + 1].type = "paragraph"
                       /\ blocks[h + 1].text = SourceLabel \o filename

\* A returned call with two sections and an attachment handle.
C10_Witness ==
    /\ Returned
    /\ Cardinality(BlockIdx("heading_2")) >= 2
    /\ image_upload_id # ""
    /\ Cardinality(BlockIdx("image")) = 1

\* The blocks one item of the input is rendered as (none for a marker and
\* for an item without text)
ItemBlocks(st) ==
    CASE st.k = "task" -> RenderTask(st.task)
      [] st.k = "question" -> RenderQuestion(strip_known_prefix(PyStr(st.q)))
      [] st.k = "note" ->
            LET c == _split_prefix_kind(PyStr(st.note))
            IN  CASE c.kind = "hash" -> <<>>
                  [] c.kind = "task_open" -> RenderTask(NoteTask(c.text, FALSE))
                  [] c.kind = "task_done" -> RenderTask(NoteTask(c.text, TRUE))
                  [] c.kind = "question" -> RenderQuestion(c.text)
                  [] OTHER -> RenderNote(c.text)
      [] OTHER -> <<>>

\* The blocks of the items st[from..to], in processing order
ItemBlocksOf(st, from, to) ==
    Flatten([i \in 1..(to - from + 1) |-> ItemBlocks(st[from + i - 1])])

\* The content blocks among bs[from..to]
ContentBlocksOf(bs, from, to) ==
    LET part == SubSeq(bs, from, to)
    IN  SelectSeq2(part, [i \in 1..Len(part) |->
                             part[i].type \in ContentTypes])

CountIn(xs, x) == Cardinality({i \in 1..Len(xs) : xs[i] = x})

\* The two sequences hold the same blocks the same number of times
SameItems(xs, ys) ==
    /\ Len(xs) = Len(ys)
    /\ \A i \in 1..Len(xs) : CountIn(xs, xs[i]) = CountIn(ys, xs[i])

\* No notes line of the input is a section marker
NoMarker == MarkerSections = <<>>

FallbackTitle ==
    <<"H", "a", "n", "d", "w", "r", "i", "t", "t", "e", "n", " ",
      "n", "o", "t", "e", "s">>

\* C11: when no notes line is a section marker the output has exactly one
\* heading_2, it comes first and is titled "Handwritten notes", and the
\* content blocks are the blocks of all items of the input.
C11_DefaultSectionHoldsAll ==
    (Returned /\ NoMarker) =>
        /\ H2Titles = <<FallbackTitle>>
        /\ blocks[1].type = "heading_2"
        /\ SameItems(ContentBlocksOf(blocks, 1, Len(blocks)),
                     ItemBlocksOf(Steps(parsed), 1, Len(Steps(parsed))))

\* A returned call without markers whose two topics both hold content.
C11_Witness ==
    /\ Returned
    /\ NoMarker
    /\ Cardinality(BlockIdx("heading_3")) >= 2
    /\ Cardinality(UNION {BlockIdx(t) : t \in ContentTypes}) >= 2

\* The only note of a single-note input as classified
TheNote == _split_prefix_kind(PyStr(Steps(parsed)[2].note))

\* t reads digits, '.', whitespace, text
HasNumberPrefix(t) ==
    LET d == SpanLen(t, Digits)
        w == SpanLen(Drop(t, d + 1), WS)
    IN  /\ d >= 1
        /\ Len(t) > d /\ t[d + 1] = "."
        /\ w >= 1
        /\ Len(t) > d + 1 + w

\* What follows the digits, the '.' and the whitespace behind it
AfterNumberPrefix(t) ==
    Drop(t, SpanLen(t, Digits) + 1 + SpanLen(Drop(t, SpanLen(t, Digits) + 1), WS))

\* C12: a note kept as a note is rendered as a numbered_list_item holding
\* the text behind its numeric prefix when it reads digits, '.', whitespace,
\* text, and as a bulleted_list_item holding the note as classified
\* otherwise.
C12_NoteRenderedByForm ==
    (Returned /\ SingleNoteInput /\ TheNote.kind = "note"
        /\ TheNote.text # <<>>) =>
        ContentBlocksOf(blocks, 1, Len(blocks)) =
            IF HasNumberPrefix(TheNote.text)
            THEN <<Block("numbered_list_item",
                         AfterNumberPrefix(TheNote.text))>>
            ELSE <<Block("bulleted_list_item", TheNote.text)>>

C14_OnlyTheSourceParagraph ==
    Returned =>
        /\ \A i \in BlockIdx("paragraph") :
              /\ blocks[i].text # <<>>
              /\ blocks[i].text =
                    <<"S", "o", "u", "r", "c", "e", ":", " ">> \o filename
        /\ Cardinality(BlockIdx("paragraph")) <= 1

\* A returned call without a handle, with two sections that hold content.
C14_Witness ==
    /\ Returned
    /\ image_upload_id = ""
    /\ Cardinality(BlockIdx("heading_2")) >= 2
    /\ Cardinality(BlockIdx("heading_3")) >= 2
    /\ Cardinality(BlockIdx("paragraph")) = 1

\* C15: however the notify_failed_image calls of the threads interleave, and
\* however often a path fails, at most one failure notification is handed
\* to notify() for a path.
C15_OneFailureNotificationPerPath ==
    \A f \in Files : notified[f] <= 1

\* A path was notified once and a later call for it returned without
\* notifying, after two threads had competed for the lock.
C15_Witness ==
    /\ \E f \in Files : notified[f] = 1
    /\ \E t1, t2 \in Threads :
          /\ t1 # t2
          /\ nf[t1].calls >= 1 /\ nf[t1].pc = "idle"
          /\ nf[t2].calls >= 1 /\ nf[t2].pc = "idle"
          /\ nf[t1].path = nf[t2].path
          /\ notified[nf[t1].path] = 1

\* The events the usage file held before the first append_event call
EarlierEvents(f) ==
    IF f # <<>> /\ f[1] = OldEvent THEN <<OldEvent>> ELSE <<>>

\* C16: however the append_event calls of the threads interleave, the usage
\* file holds the events it held before followed by the event of every
\* completed call, each once: no update is lost.
C16_NoAppendLost ==
    usage_file = EarlierEvents(usage_file) \o appended

\* Every thread has completed all its calls, having had to wait for the lock
\* of another, and the file held an event before.
C16_Witness ==
    /\ \A t \in Threads : ua[t].pc = "idle" /\ ua[t].calls = MaxAppendCalls
    /\ Len(appended) = MaxAppendCalls * Cardinality(Threads)
    /\ usage_file[1] = OldEvent
    /\ appended[1].thread # appended[2].thread

\* The handler threads (FolderHandler.on_created runs on an observer thread)
Handlers == Threads \ {0}

\* on_created on thread t ends, process() having returned / raised
EndsReturned(t) == th[t].pc = "returned" /\ th'[t].pc = "idle"
EndsRaised(t) == th[t].pc = "raised" /\ th'[t].pc = "idle"

\* C17: when on_created ends after process() returned, the file is in
\* _processed and notify_failed_image was not called; when it ends after
\* process() raised, the file is in _failed and notify_failed_image was
\* called for it.
C17_MoveAndNotifyByOutcome ==
    [][\A t \in Handlers :
          /\ EndsReturned(t) =>
                /\ th[t].path \in processedDir'
                /\ failed_paths' = failed_paths
                /\ notified' = notified
          /\ EndsRaised(t) =>
                /\ th[t].path \in failedDir'
                /\ th[t].path \in failed_paths']_vars

\* process() on thread t resolves the anchor / has a chunk accepted
AnchorResolved(t) == th[t].pc = "transcribe" /\ th'[t].pc = "append"
ChunkSent(t) == th[t].pc = "append" /\ th'[t].i > th[t].i

\* The chunk accepted in this step is blocks[i:i+60], and the page holds it
\* in formatter order directly after the block named by the anchor that was
\* sent (at the end without an anchor)
ChunkLandsAfterAnchor(t) ==
    LET c == th[t]
        last == th'[t].i
        p == IF c.after_id = NoId THEN Len(page)
             ELSE Position(page, c.after_id)
    IN  /\ last = Min(c.i + chunk, c.n)
        /\ Len(page') = Len(page) + (last - c.i)
        /\ \A j \in 1..(last - c.i) :
              BlockId(page'[p + j]) = <<c.call, c.i + j>>

\* The anchor for the next chunk is the first block id of the response, the
\* id of the first block of the chunk; it stays when the response has none
AnchorFollowsResponse(t) ==
    /\ th'[t].resp_id \in {NoId, <<th[t].call, th[t].i + 1>>}
    /\ th'[t].after_id = IF th'[t].resp_id # NoId
                         THEN <<th[t].call, th[t].i + 1>>
                         ELSE th[t].after_id

\* C18 as stated: the first chunk's anchor is the first heading_1 of the
\* page, else its first child, else none; the chunks are consecutive, of at
\* most 60 blocks, in formatter order; every later anchor is the first block
\* id of the previous response and stays when that response has no id.
C18_AnchorsAsStated ==
    [][\A t \in Threads :
          /\ AnchorResolved(t) => th'[t].after_id = FirstAnchor(page)
          /\ ChunkSent(t) =>
                ChunkLandsAfterAnchor(t) /\ AnchorFollowsResponse(t)]_vars

\* C18, amended: as stated, and the first chunk is sent without an anchor
\* when looking up the anchor raised.
C18_AnchorsOrNoneOnLookupError ==
    [][\A t \in Threads :
          /\ AnchorResolved(t) => th'[t].after_id \in {FirstAnchor(page), NoId}
          /\ ChunkSent(t) =>
                ChunkLandsAfterAnchor(t) /\ AnchorFollowsResponse(t)]_vars

\* A call has sent two chunks: the first after the first heading_1 of the
\* page, the second after the first block of the first, whose response had
\* no id, so that the anchor stayed.
C18_Witness ==
    \E t \in Threads :
        /\ th[t].pc = "finish"
        /\ th[t].n > chunk
        /\ th[t].resp_id = NoId
        /\ th[t].after_id = <<th[t].call, 1>>
        /\ \E i \in 1..(Len(page) - 1) :
              page[i].h1 /\ BlockId(page[i + 1]) = <<th[t].call, 1>>

\* The positions of the marker lines among the items in processing order,
\* and of the heading_2 blocks in the output
MarkerPos ==
    LET st == Steps(parsed)
    IN  SelectSeq2([i \in 1..Len(st) |-> i],
                   [i \in 1..Len(st) |-> StepRole(st[i]).role = "marker"])

H2Pos ==
    SelectSeq2([i \in 1..Len(blocks) |-> i],
               [i \in 1..Len(blocks) |-> blocks[i].type = "heading_2"])

\* The blocks of the items of the k-th marker section: those processed
\* behind the k-th marker and before the next, and for the first marker
\* those processed before it as well
SectionItems(k) ==
    LET ms == MarkerPos
        st == Steps(parsed)
        from == IF k = 1 THEN 1 ELSE ms[k] + 1
        to == IF k = Len(ms) THEN Len(st) ELSE ms[k + 1] - 1
    IN  ItemBlocksOf(st, from, to)

\* The marker sections that hold an item with text, by their number
NonEmptySections ==
    SelectSeq2([k \in 1..Len(MarkerSections) |-> k],
               [k \in 1..Len(MarkerSections) |-> MarkerSections[k].has])

\* The content blocks between the j-th heading_2 and the next
RenderedUnder(j) ==
    LET hs == H2Pos
        to == IF j = Len(hs) THEN Len(blocks) ELSE hs[j + 1] - 1
    IN  ContentBlocksOf(blocks, hs[j], to)

\* C19: the content blocks between the heading_2 of a marker section and the
\* next heading_2 are the blocks of the items processed behind that marker
\* and before the next marker, together with the items processed before
\* the first marker for the first section; and while a section is open the
\* pending list is empty.
C19_ItemsUnderTheirSection ==
    /\ current_section # 0 => pending_topics = <<>>
    /\ (Returned /\ NonEmptySections # <<>>) =>
          /\ Len(H2Pos) = Len(NonEmptySections)
          /\ \A j \in 1..Len(NonEmptySections) :
                SameItems(RenderedUnder(j), SectionItems(NonEmptySections[j]))

\* A returned call with content before the first marker and behind the
\* second marker, each rendered under its own heading_2.
C19_Witness ==
    /\ Returned
    /\ Len(MarkerPos) = 2
    /\ Len(NonEmptySections) = 2
    /\ MarkerPos[1] > 2
    /\ Len(SectionItems(1)) >= 1
    /\ Len(RenderedUnder(1)) >= 1
    /\ Len(RenderedUnder(2)) >= 1

\* The input has marker lines and no marker section holds an item with text
OnlyEmptyMarkerSections == MarkerSections # <<>> /\ NonEmptySections = <<>>

\* C20: every output has a heading_2; when the input has marker lines and
\* every marker section is empty, the output is a heading_2 titled
\* "Handwritten notes", the source block and a divider, and nothing else.
C20_FallbackHeadingWhenAllEmpty ==
    Returned =>
        /\ BlockIdx("heading_2") # {}
        /\ OnlyEmptyMarkerSections =>
              /\ Len(blocks) = 3
              /\ blocks[1].type = "heading_2"
              /\ H2Title(blocks[1]) = FallbackTitle
              /\ blocks[2].type \in {"image", "paragraph"}
              /\ blocks[3].type = "divider"
              /\ BlockIdx("heading_3") = {}

\* A returned call whose input has two marker lines and no item with text.
C20_Witness ==
    /\ Returned
    /\ Len(MarkerSections) >= 2
    /\ OnlyEmptyMarkerSections
    /\ Len(blocks) = 3

\* The title the routing loop gives a topic
TopicTitle(t) ==
    LET r == StripOrEmpty(t.title).s
    IN  IF r = <<>> THEN General ELSE r

\* The topic title in effect at item i of st
StepTitle(st, i) ==
    TopicTitle(st[CHOOSE j \in 1..i :
                     /\ st[j].k = "topic"
                     /\ \A h \in (j + 1)..i : st[h].k # "topic"].topic)

\* The list of the bucket an item goes to
StepField(s) ==
    CASE s.k = "task" -> "tasks"
      [] s.k = "question" -> "questions"
      [] s.k = "note" ->
            LET c == _split_prefix_kind(PyStr(s.note))
            IN  CASE c.kind \in {"task_open", "task_done"} -> "tasks"
                  [] c.kind = "question" -> "questions"
                  [] c.kind = "hash" -> "none"
                  [] OTHER -> "notes"
      [] OTHER -> "none"

\* xs without the repetitions of an element
RECURSIVE FirstSeen(_, _)
FirstSeen(xs, acc) ==
    IF xs = <<>> THEN acc
    ELSE FirstSeen(Tail(xs),
                   IF \E i \in 1..Len(acc) : acc[i] = Head(xs)
                   THEN acc ELSE Append(acc, Head(xs)))

\* The items among st[from..to] that are rendered, by position
PlacedItems(st, from, to) ==
    SelectSeq2([i \in 1..(to - from + 1) |-> from + i - 1],
               [i \in 1..(to - from + 1) |->
                   ItemBlocks(st[from + i - 1]) # <<>>])

\* The blocks of the items at the positions ps that carry this title and go
\* to this list, in processing order
BlocksOfKind(st, ps, title, field) ==
    Flatten([i \in 1..Len(ps) |->
                IF StepTitle(st, ps[i]) = title /\ StepField(st[ps[i]]) = field
                THEN ItemBlocks(st[ps[i]]) ELSE <<>>])

\* What the items st[from..to] look like as one section: per topic title in
\* first-seen order a heading_3, the to_do blocks, the note blocks and the
\* question bullets
ExpectedBody(st, from, to) ==
    LET ps == PlacedItems(st, from, to)
        titles == FirstSeen([i \in 1..Len(ps) |-> StepTitle(st, ps[i])], <<>>)
    IN  Flatten([i \in 1..Len(titles) |->
                    <<Block("heading_3", titles[i])>>
                    \o BlocksOfKind(st, ps, titles[i], "tasks")
                    \o BlocksOfKind(st, ps, titles[i], "notes")
                    \o BlocksOfKind(st, ps, titles[i], "questions")])

\* The heading_3 and content blocks between the j-th heading_2 and the next
SectionBody(j) ==
    LET hs == H2Pos
        to == IF j = Len(hs) THEN Len(blocks) ELSE hs[j + 1] - 1
        part == SubSeq(blocks, hs[j], to)
    IN  SelectSeq2(part, [i \in 1..Len(part) |->
                     part[i].type \in ContentTypes \cup {"heading_3"}])

\* The items of the k-th marker section, by first and last position
SectionFrom(k) == IF k = 1 THEN 1 ELSE MarkerPos[k] + 1
SectionTo(k) ==
    IF k = Len(MarkerPos) THEN Len(Steps(parsed)) ELSE MarkerPos[k + 1] - 1

\* C21: the body of every rendered section is, bucket by bucket in
\* first-seen order of the topic titles, one heading_3, then the to_do
\* blocks, then the note blocks, then the question bullets, each kind in
\* the order the items were processed.
C21_BucketLayout ==
    Returned =>
        IF NonEmptySections # <<>>
        THEN \A j \in 1..Len(NonEmptySections) :
                SectionBody(j) =
                    ExpectedBody(Steps(parsed),
                                 SectionFrom(NonEmptySections[j]),
                                 SectionTo(NonEmptySections[j]))
        ELSE SectionBody(1) =
                ExpectedBody(Steps(parsed), 1, Len(Steps(parsed)))

\* A returned call with a bucket whose to_do from a notes line was processed
\* after a note of the same bucket and is rendered before it, behind an
\* earlier to_do.
C21_Witness ==
    /\ Returned
    /\ \E i \in 1..(Len(blocks) - 3) :
          /\ blocks[i].type = "heading_3"
          /\ blocks[i + 1].type = "to_do" /\ blocks[i + 1].checked
          /\ blocks[i + 2].type = "to_do" /\ ~blocks[i + 2].checked
          /\ blocks[i + 3].type = "bulleted_list_item"
    /\ \E i \in 1..(Len(Steps(parsed)) - 1) :
          /\ StepField(Steps(parsed)[i]) = "notes"
          /\ StepField(Steps(parsed)[i + 1]) = "tasks"

\* The texts of the heading_3 blocks, in output order
H3Texts ==
    LET hs == SelectSeq2(blocks, [i \in 1..Len(blocks) |->
                                     blocks[i].type = "heading_3"])
    IN  [i \in 1..Len(hs) |-> hs[i].text]

\* The input is two topics with string titles, one plain note each
TwoTitledTopics ==
    /\ Len(TopicsOf(parsed)) = 2
    /\ \A i \in 1..2 :
          /\ TopicsOf(parsed)[i].ty = "dict"
          /\ TopicsOf(parsed)[i].title.ty = "str"
          /\ TopicsOf(parsed)[i].notes = ListVal(<<StrVal(<<"n">>)>>)
          /\ ItemsOf(TopicsOf(parsed)[i].tasks) = <<>>
          /\ ItemsOf(TopicsOf(parsed)[i].questions) = <<>>

\* The title strings of the two topics as the input gives them
RawTitle(i) == TopicsOf(parsed)[i].title.s

\* s without its whitespace, in lower case
RECURSIVE Canon(_)
Canon(s) ==
    IF s = <<>> THEN <<>>
    ELSE (IF Head(s) \in WS THEN <<>> ELSE <<LowerChar(Head(s))>>)
         \o Canon(Tail(s))

\* The two titles differ, and in letter case or whitespace only
DifferInCaseOrWhitespace ==
    RawTitle(1) # RawTitle(2) /\ Canon(RawTitle(1)) = Canon(RawTitle(2))

\* C22 as stated: two topics with the same title string share one
\* heading_3, and two topics whose title strings differ in letter case or
\* in whitespace get a heading_3 each.
C22_ExactTitleKeys ==
    (Returned /\ TwoTitledTopics) =>
        /\ RawTitle(1) = RawTitle(2) => Len(H3Texts) = 1
        /\ DifferInCaseOrWhitespace => Len(H3Texts) = 2

\* C22, amended: the key of a topic is its title trimmed of surrounding
\* whitespace, "General" when that is empty.  Topics with the same key
\* share one heading_3, topics with different keys (differing in letter
\* case or in whitespace inside the title as well) get one each, in
\* first-seen order.
C22_TrimmedTitleKeys ==
    (Returned /\ TwoTitledTopics) =>
        LET k1 == TopicTitle(TopicsOf(parsed)[1])
            k2 == TopicTitle(TopicsOf(parsed)[2])
        IN  H3Texts = IF k1 = k2 THEN <<k1>> ELSE <<k1, k2>>

\* A returned call on two topics whose titles differ in surrounding
\* whitespace only: one heading_3 and both notes under it.
C22_Witness ==
    /\ Returned
    /\ TwoTitledTopics
    /\ RawTitle(1) = <<"a">>
    /\ RawTitle(2) = <<"a", " ">>
    /\ H3Texts = <<RawTitle(1)>>
    /\ Cardinality(BlockIdx("bulleted_list_item")) = 2

\* The input is one topic with one tasks entry / one questions entry and
\* nothing else
SingleTaskInput ==
    /\ Len(Steps(parsed)) = 2
    /\ Steps(parsed)[2].k = "task"

SingleQuestionInput ==
    /\ Len(Steps(parsed)) = 2
    /\ Steps(parsed)[2].k = "question"

\* The text and the done flag of the only tasks entry, the string of the
\* only questions entry
TheTaskText == Strip(PyStr(Steps(parsed)[2].task.text))
TheTaskDone == Steps(parsed)[2].task.done = "true"
TheQuestion == Strip(PyStr(Steps(parsed)[2].q))

\* t is s, or s without one leading prefix character and the whitespace
\* behind it
AtMostOnePrefixStripped(s, t) ==
    \/ t = s
    \/ s # <<>> /\ Head(s) \in PrefixChars /\ t = Strip(Tail(s))

\* The output is the default section holding this one content block
OnlyContentBlock(b) ==
    /\ H2Titles = <<FallbackTitle>>
    /\ ContentBlocksOf(blocks, 1, Len(blocks)) = <<b>>

\* C23: a tasks entry with text is rendered as one to_do with that text and
\* its done flag, a questions entry with text as one question bullet with
\* at most one leaked prefix character removed; neither opens a section nor
\* changes kind, whatever the text begins with.
C23_TrustedBucketsKeepKind ==
    Returned =>
        /\ (SingleTaskInput /\ Steps(parsed)[2].task.text.ty = "str"
               /\ TheTaskText # <<>>) =>
              OnlyContentBlock([Block("to_do", TheTaskText)
                                   EXCEPT !.checked = TheTaskDone])
        /\ (SingleQuestionInput /\ TheQuestion # <<>>) =>
              \E i \in 1..Len(blocks) :
                 /\ OnlyContentBlock(blocks[i])
                 /\ blocks[i].type = "bulleted_list_item"
                 /\ StartsWith(blocks[i].text, QuestionGlyph)
                 /\ AtMostOnePrefixStripped(TheQuestion,
                        Drop(blocks[i].text, Len(QuestionGlyph)))

\* A returned call whose only item is a questions entry that reads like a
\* section marker, rendered as a question bullet with the marker kept.
C23_Witness ==
    /\ Returned
    /\ SingleQuestionInput
    /\ TheQuestion = <<"#", "a">>
    /\ H2Titles = <<FallbackTitle>>
    /\ \E i \in 1..Len(blocks) :
          blocks[i].text = QuestionGlyph \o <<"#", "a">>


\* What a call of build_notion_blocks on its own returns for one section
\* made of the items st[from..to] under this title
AloneSection(idx, title, from, to) ==
    <<[Block("heading_2", HeadingDash \o title) EXCEPT !.date =
                                         date_mention_rich_text(now, tz)]>>
    \o (IF idx = 1 THEN <<SourceBlock>> ELSE <<>>)
    \o <<Block("divider", <<>>)>>
    \o ExpectedBody(Steps(parsed), from, to)

\* What a call on its own returns for these arguments
AloneResult ==
    IF NonEmptySections # <<>>
    THEN Flatten([j \in 1..Len(NonEmptySections) |->
                    AloneSection(j, MarkerSections[NonEmptySections[j]].title,
                                 SectionFrom(NonEmptySections[j]),
                                 SectionTo(NonEmptySections[j]))])
    ELSE AloneSection(1, FallbackTitle, 1, Len(Steps(parsed)))

\* A call on its own returns AloneResult
AloneResultIsReturned == Returned => blocks = AloneResult

\* C24: no step of build_notion_blocks changes the parsed argument, and of
\* two calls on the same parsed object whose steps interleave in any way
\* each returns what a call on its own returns.
C24_ConcurrentCallsAgree ==
    /\ [][parsed' = parsed]_vars
    /\ [](/\ Returned => blocks = AloneResult
          /\ other.fpc = "done" => other.blocks = AloneResult)

\* The second call has returned the result of a call on its own while the
\* first call is suspended inside its routing loop with topics pending.
C24_Witness ==
    /\ running = 2
    /\ Returned
    /\ blocks = AloneResult
    /\ Len(blocks) > 3
    /\ other.fpc = "route"
    /\ other.pos >= 1
    /\ other.pending_topics # <<>>


\* The pages a listing call has requested, the last of them, and all their
\* results in the order of the requests
ServedPage(k) == listing[lc.served[k]]
LastServed == ServedPage(Len(lc.served))
ServedResults ==
    Flatten([k \in 1..Len(lc.served) |-> ServedPage(k).results])

\* The page says that it is the last one
SaysLast(data) == ~data.has_more \/ data.next_cursor = NoCursor

\* C25: a listing call asks for the first page and then for the page each
\* next_cursor names while has_more is true, one request per page, and goes
\* on only behind a page that has more and names a cursor.
\* list_children_ids returns the ids of the pages it was served, in order,
\* and returns at the first page that says it is the last;
\* find_first_h1_id returns the id of the first heading_1 of the pages it
\* was served, at the page that holds it, and None at the first page that
\* says it is the last when no page held one.
C25_ListingFollowsCursors ==
    /\ \A k \in 1..Len(lc.served) :
          IF k = 1 THEN lc.served[k] = 1
          ELSE /\ ServedPage(k - 1).ok
               /\ ServedPage(k - 1).has_more
               /\ ServedPage(k - 1).next_cursor = lc.served[k]
               /\ lc.op = "find" => H1In(ServedPage(k - 1).results) = {}
    /\ (lc.pc = "loop" /\ lc.served # <<>>) =>
          /\ LastServed.ok
          /\ ~SaysLast(LastServed)
          /\ lc.op = "find" => H1In(LastServed.results) = {}
    /\ (lc.pc = "returned" /\ lc.op = "list") =>
          /\ lc.ids = IdsOf(ServedResults)
          /\ SaysLast(LastServed)
    /\ (lc.pc = "returned" /\ lc.op = "find") =>
          IF H1In(ServedResults) = {}
          THEN lc.result = NoBlockId /\ SaysLast(LastServed)
          ELSE /\ H1In(LastServed.results) # {}
               /\ lc.result =
                      ServedResults[CHOOSE i \in H1In(ServedResults) :
                                       \A j \in H1In(ServedResults) : i <= j].id

\* list_children_ids has returned the ids of two pages, three ids in all,
\* after two requests.
C25_Witness ==
    /\ lc.op = "list"
    /\ lc.pc = "returned"
    /\ lc.served = <<1, 2>>
    /\ Len(lc.ids) = 3
    /\ lc.ids = IdsOf(listing[1].results) \o IdsOf(listing[2].results)


\* Thread t is at the start of process() on a file that is there and whose
\* fingerprint is in the processed set of its Pipeline
AtSeenFile(t) ==
    /\ th[t].pc = "fingerprint"
    /\ InFolder(th[t].path)
    /\ fpOf[th[t].path] \in pstate[th[t].pl].processed

\* C26: the step of process() on a file whose fingerprint is in the
\* processed set returns, and with it nothing was converted, uploaded or
\* transcribed (no call number, no usage event), nothing appended to the
\* page, nothing notified, and the processed set and last_note_url are
\* as before, in memory and on disk.
C26_SeenFileHasNoEffect ==
    [][\A t \in Threads :
          (AtSeenFile(t) /\ th'[t] # th[t]) =>
              /\ th'[t] = [th[t] EXCEPT !.pc = "returned",
                                        !.fp = fpOf[th[t].path]]
              /\ th'[t].call = 0
              /\ th'[t].i = 0
              /\ ncalls' = ncalls
              /\ page' = page
              /\ pstate' = pstate
              /\ diskState' = diskState
              /\ notified' = notified
              /\ appended' = appended /\ usage_file' = usage_file]_vars

\* process() has returned on a file whose fingerprint was in the processed
\* set: the call built no blocks.
C26_Witness ==
    \E t \in Threads :
        /\ th[t].pc = "returned"
        /\ th[t].call = 0
        /\ th[t].fp # ""
        /\ th[t].fp \in pstate[th[t].pl].processed
        /\ page # <<>>


\* Thread t is behind its chunk loop with every block of its call on the
\* page, about to mark fingerprint fp in the Pipeline g
AllChunksAppended(t, g, fp) ==
    /\ th[t].pc = "finish"
    /\ th[t].pl = g
    /\ th[t].fp = fp
    /\ th[t].n > 0
    /\ th[t].i = th[t].n
    /\ \A k \in 1..th[t].n :
          \E i \in 1..Len(page) : page[i].c = th[t].call /\ page[i].k = k

\* C27: a step in which conversion, transcription or a chunk append raises
\* changes no processed set and not the state file; a fingerprint enters
\* the processed set of a Pipeline, and the state file, only in the step of
\* a call that has appended every chunk of its blocks (or, for a new
\* Pipeline, by loading the state file), and the state file, with its
\* last_note_url, changes only in such a step, to the state of the
\* Pipeline of that call.
C27_MarkedOnlyAfterAllChunks ==
    [][/\ \A t \in Threads :
             (th[t].pc \in {"transcribe", "append"} /\ th'[t].pc = "raised")
                 => pstate' = pstate /\ diskState' = diskState
       /\ \A g \in 1..MaxGen : \A fp \in Fingerprints :
             (fp \in pstate'[g].processed /\ fp \notin pstate[g].processed)
                 => \/ gen' = g /\ gen # g /\ fp \in diskState.processed
                    \/ \E t \in Threads : AllChunksAppended(t, g, fp)
       /\ diskState' # diskState
             => \E t \in Threads :
                   /\ AllChunksAppended(t, th[t].pl, th[t].fp)
                   /\ diskState' = pstate'[th[t].pl]
      ]_vars

\* A call raised in its second chunk, the first chunk being on the page,
\* and its fingerprint is in no processed set.
C27_Witness ==
    \E t \in Threads :
        /\ th[t].pc = "raised"
        /\ th[t].i > 0
        /\ th[t].i < th[t].n
        /\ \E i \in 1..Len(page) : page[i].c = th[t].call
        /\ \A g \in 1..MaxGen : th[t].fp \notin pstate[g].processed
        /\ th[t].fp \notin diskState.processed


\* Block b renders an item of the input that was read under this topic
\* title
FromBucket(b, title) ==
    \E p \in 1..Len(Steps(parsed)) :
        /\ Steps(parsed)[p].k # "topic"
        /\ StepTitle(Steps(parsed), p) = title
        /\ \E j \in 1..Len(ItemBlocks(Steps(parsed)[p])) :
              ItemBlocks(Steps(parsed)[p])[j] = b

\* C28: in every output each heading_3 is directly followed by a content
\* block that renders an item of its topic, and every heading_2 has a
\* title, every heading_3 and content block a text that is not empty (a
\* question bullet a text behind its glyph).
C28_HeadingsHaveContent ==
    Returned =>
        \A i \in 1..Len(blocks) :
            /\ blocks[i].type = "heading_3" =>
                  /\ i < Len(blocks)
                  /\ blocks[i + 1].type \in ContentTypes
                  /\ FromBucket(blocks[i + 1], blocks[i].text)
            /\ blocks[i].type = "heading_2" => H2Title(blocks[i]) # <<>>
            /\ blocks[i].type \in ContentTypes \cup {"heading_3"} =>
                  /\ blocks[i].text # <<>>
                  /\ blocks[i].text # QuestionGlyph

\* A returned call with two buckets, the input holding a blank entry that
\* is not rendered.
C28_Witness ==
    /\ Returned
    /\ Cardinality(BlockIdx("heading_3")) >= 2
    /\ \E p \in 1..Len(Steps(parsed)) :
          /\ Steps(parsed)[p].k # "topic"
          /\ StepField(Steps(parsed)[p]) # "none"
          /\ ItemBlocks(Steps(parsed)[p]) = <<>>


\* The item is not empty after cleaning: a tasks entry with text, a
\* questions entry with text behind a leaked prefix, a notes line that is
\* not a section marker and has text behind its prefix
NonEmptyAfterCleaning(s) ==
    CASE s.k = "task" -> StripOrEmpty(s.task.text).s # <<>>
      [] s.k = "question" -> strip_known_prefix(PyStr(s.q)) # <<>>
      [] s.k = "note" ->
            LET c == _split_prefix_kind(PyStr(s.note))
            IN  c.kind # "hash" /\ c.text # <<>>
      [] OTHER -> FALSE

CleanItems ==
    {p \in 1..Len(Steps(parsed)) : NonEmptyAfterCleaning(Steps(parsed)[p])}

\* C29: the output has as many content blocks as the input has items that
\* are not empty after cleaning, every such item gives one block, and the
\* content blocks are these blocks, each as often as the input has it.
C29_EveryItemRenderedOnce ==
    Returned =>
        /\ Len(ContentBlocksOf(blocks, 1, Len(blocks))) = Cardinality(CleanItems)
        /\ \A p \in 1..Len(Steps(parsed)) :
              Len(ItemBlocks(Steps(parsed)[p])) =
                  IF p \in CleanItems THEN 1 ELSE 0
        /\ SameItems(ContentBlocksOf(blocks, 1, Len(blocks)),
                     ItemBlocksOf(Steps(parsed), 1, Len(Steps(parsed))))

\* A returned call on an input with an item before the first marker, an
\* empty marker section that is dropped and a marker section with content:
\* both items are rendered.
C29_Witness ==
    /\ Returned
    /\ Len(MarkerSections) = 2
    /\ Len(NonEmptySections) = 1
    /\ MarkerPos[1] > 2
    /\ Cardinality(CleanItems) = 2
    /\ Len(ContentBlocksOf(blocks, 1, Len(blocks))) = 2


\* The watcher is on: start_watching has begun and stop_watching has not
\* been called
Watching == mainpc = "batch" \/ observer # 0

Moved(f) == f \in processedDir \cup failedDir

\* C30: an image that is in the watch folder while the watcher is on (there
\* when start_watching begins, or created at any time after that) is
\* eventually moved to _processed or _failed, which only the caller of
\* process() does.
C30_EveryImageEventuallyMoved ==
    \A f \in Files : (Watching /\ InFolder(f)) ~> Moved(f)

\* The images the watcher does handle: those listed for the startup batch
\* and those created after observer.start()
C30_ListedOrObservedImageMoved ==
    \A f \in Files :
        (Watching /\ InFolder(f)
            /\ \/ \E i \in 1..Len(batch) : batch[i] = f
               \/ \E g \in 1..MaxGen : \E i \in 1..Len(evq[g]) : evq[g][i] = f)
        ~> Moved(f)

====
